---- MODULE Spec2Model ----
(***************************************************************************)
(* A model of the multichain DEX front end: the three DEX adapters         *)
(* (KalySwap, PancakeSwap, Camelot) over the shared BaseDexService, and    *)
(* the two swap interfaces that drive them.                                *)
(*                                                                         *)
(* The chain is the environment: the factory's pair mapping starts empty   *)
(* and grows by CreatePair, and every call draws the health of the read    *)
(* interface (env).                                                        *)
(* Addresses are short strings; a mixed-case string stands for the         *)
(* checksummed form and toLowerCase gives its lower-case form.  Token      *)
(* decimals are scaled down (18 -> 2, 6 -> 1) so that base units stay      *)
(* inside TLC's integers.                                                  *)
(***************************************************************************)
EXTENDS Integers, Sequences, FiniteSets, TLC

VARIABLES
    dex,        \* the adapter under test: its getName()
    pairs,      \* the factory's pair mapping: a set of 2-element sets of lower-case addresses
    call,       \* the last read operation of the adapter: its arguments and its outcome
    swap,       \* the last executeSwap call: its arguments, wallet writes and outcome
    iface,      \* the swap interface component that is mounted, "none" before
    quoting,    \* the component's quote state and its quote requests in flight
    attempt,    \* the component's swap attempt: its step, position and wallet writes
    chart,      \* useHistoricalPriceData: its state, its cancel flags and its fetches in flight
    tokenLists, \* the token list service: its cache, its clock and its requests in flight
    retry,      \* requestWithRetry: its loop position, the requests made and the waits
    internalWallet  \* the internal wallet connector: its state, storage and connects

\* ------------------------------------------------------------------ bounds

\* At most this many pairs have been created on the factory.
MaxPairs == 4

\* The most pools the factory holds while executeSwap calls are explored.
MaxSwapPairs == 2

\* The most quote requests a swap interface issues.
MaxRequests == 3

\* The most swap attempts the user starts in a swap interface.
MaxAttempts == 2

\* The most fetches useHistoricalPriceData starts (effect runs and refetches).
MaxFetches == 3

\* The most network requests the token list service sends.
MaxListRequests == 3

\* The clock of the token list service runs up to this time.
MaxClock == 3

\* requestWithRetry is called with up to this many retries.
MaxRetries == 3

\* At most this many connect calls of the internal wallet are in flight.
MaxConnects == 2

\* The most clicks on SwapInterface's swap button whose preparation is pending.
MaxPreparing == 2

\* ------------------------------------------------------------ strings

\* String.prototype.toLowerCase on the addresses of the model.
toLowerCase(s) ==
    CASE s = "0xWklc" -> "0xwklc"
      [] s = "0xWbnb" -> "0xwbnb"
      [] s = "0xWeth" -> "0xweth"
      [] s = "0xUsdt" -> "0xusdt"
      [] s = "0xUsdc" -> "0xusdc"
      [] s = "0xBusd" -> "0xbusd"
      [] s = "0xTka" -> "0xtka"
      [] s = "0xTkc" -> "0xtkc"
      [] OTHER -> s

\* String.prototype.toUpperCase on the symbols of the model.
toUpperCase(s) ==
    CASE s = "wKLC" -> "WKLC"
      [] s = "wklc" -> "WKLC"
      [] OTHER -> s

\* The order of two addresses as 20-byte numbers (the factory sorts by it).
AddressRank(a) ==
    CASE a \in {"0xwklc", "0xwbnb", "0xweth"} -> 1
      [] a = "0xusdt" -> 2
      [] a = "0xusdc" -> 3
      [] a = "0xbusd" -> 3
      [] a = "0xtka" -> 4
      [] a = "0xtkc" -> 5
      [] OTHER -> 0

\* ------------------------------------------------------------- tokens

Token(symbol, address, isNative, decimals) ==
    [symbol |-> symbol, address |-> address, isNative |-> isNative, decimals |-> decimals]

ZERO_ADDRESS == "0x0000000000000000000000000000000000000000"

WKLC_ADDRESS == "0xWklc"
WBNB_ADDRESS == "0xWbnb"
WETH_ADDRESS == "0xWeth"

DexNames == {"KalySwap", "PancakeSwap", "Camelot"}

\* The wrapped-native address constant of each adapter class.
AdapterWrappedAddress(d) ==
    CASE d = "KalySwap" -> WKLC_ADDRESS
      [] d = "PancakeSwap" -> WBNB_ADDRESS
      [] d = "Camelot" -> WETH_ADDRESS

\* The upper-cased symbol each adapter's wrap detection compares with.
AdapterWrappedSymbol(d) ==
    CASE d = "KalySwap" -> "WKLC"
      [] d = "PancakeSwap" -> "WBNB"
      [] d = "Camelot" -> "WETH"

\* The official KalySwap token list (the entries routing reads).
KALYCHAIN_TOKENS ==
    << Token("KLC", ZERO_ADDRESS, TRUE, 2),
       Token("wKLC", "0xWklc", FALSE, 2),
       Token("USDT", "0xUsdt", FALSE, 1),
       Token("USDC", "0xUsdc", FALSE, 1) >>

\* The token lists of the two other chain configurations.
BSC_TOKENS ==
    << Token("BNB", ZERO_ADDRESS, TRUE, 2),
       Token("WBNB", "0xWbnb", FALSE, 2),
       Token("USDT", "0xUsdt", FALSE, 2),
       Token("BUSD", "0xBusd", FALSE, 2) >>

ARBITRUM_TOKENS ==
    << Token("ETH", ZERO_ADDRESS, TRUE, 2),
       Token("WETH", "0xWeth", FALSE, 2),
       Token("USDC", "0xUsdc", FALSE, 1),
       Token("USDT", "0xUsdt", FALSE, 1) >>

\* DexConfig of an adapter: this.config.tokens and this.config.wethAddress.
ConfigTokens(d) ==
    CASE d = "KalySwap" -> KALYCHAIN_TOKENS
      [] d = "PancakeSwap" -> BSC_TOKENS
      [] d = "Camelot" -> ARBITRUM_TOKENS

getWethAddress(d) == AdapterWrappedAddress(d)

\* Array.prototype.find: the first element satisfying the test, or "undefined".
Undefined == Token("undefined", "undefined", FALSE, 0)

FindToken(tokens, hits) ==
    IF hits = {} THEN Undefined
    ELSE tokens[CHOOSE i \in hits : \A j \in hits : i <= j]

\* Two tokens outside the bridge set, standing for any listed or unlisted ERC20.
TokenA == Token("TKA", "0xTka", FALSE, 2)
TokenC == Token("TKC", "0xTkc", FALSE, 1)

\* The wrapped-native token as a caller may hand it over: lower-case address.
LowerCased(t) == [t EXCEPT !.address = toLowerCase(t.address)]

\* The Token values callers pass to an adapter.
InputTokens(d) ==
    {ConfigTokens(d)[i] : i \in 1..Len(ConfigTokens(d))}
        \cup {TokenA, TokenC, LowerCased(ConfigTokens(d)[2])}

\* The ERC20 addresses of a chain, lower-cased: the factory's key space.
ChainAddresses(d) ==
    {toLowerCase(t.address) : t \in {x \in InputTokens(d) : ~x.isNative}}

AllPairs(d) ==
    {p \in SUBSET ChainAddresses(d) : Cardinality(p) = 2}

\* ------------------------------------------------- outcomes of a call

Return(v) == [kind |-> "return", code |-> "", msg |-> "", value |-> v]
Null == [kind |-> "null", code |-> "", msg |-> "", value |-> <<>>]
ThrowMsg(code, msg) == [kind |-> "throw", code |-> code, msg |-> msg, value |-> <<>>]
Throw(code) == ThrowMsg(code, "")

\* The health of the read interface during one call.
\*   ok: every read answers;  rpcDown: every read rejects;
\*   routerFail: the router's simulation rejects;  pairFail: the reads of a pair
\*   contract reject;  noClient: no public client was given.
Envs == {"ok", "rpcDown", "routerFail", "pairFail", "noClient"}

\* -------------------------------------------------------- the factory

\* The address of the pair contract of a created pair.
PairContract(p) ==
    LET lo == CHOOSE a \in p : \A b \in p : AddressRank(a) <= AddressRank(b)
        hi == CHOOSE a \in p : a # lo
    IN "0xPair:" \o lo \o ":" \o hi

\* Mutant: the factory's mapping is filled for the sorted order only.
FactoryGetPairSorted(ps, a, b) ==
    IF /\ {toLowerCase(a), toLowerCase(b)} \in ps
       /\ AddressRank(toLowerCase(a)) <= AddressRank(toLowerCase(b))
    THEN PairContract({toLowerCase(a), toLowerCase(b)})
    ELSE ZERO_ADDRESS

\* factory.getPair(a, b): order-independent, keyed by the 20-byte addresses.
FactoryGetPair(ps, a, b) ==
    IF {toLowerCase(a), toLowerCase(b)} \in ps
    THEN PairContract({toLowerCase(a), toLowerCase(b)})
    ELSE ZERO_ADDRESS

\* --------------------------------------------------- BaseDexService

\* The body of getPairAddress's try block.
getPairAddressTry(d, ps, tokenA, tokenB, env) ==
    IF env = "noClient" THEN Throw("NO_CLIENT")
    ELSE LET addressA == IF tokenA.isNative THEN getWethAddress(d) ELSE tokenA.address
             addressB == IF tokenB.isNative THEN getWethAddress(d) ELSE tokenB.address
         IN IF env = "rpcDown" THEN Throw("RPC")
            ELSE LET pairAddress == FactoryGetPair(ps, addressA, addressB)
                 IN IF pairAddress = ZERO_ADDRESS THEN Null ELSE Return(pairAddress)

\* Mutant: getPairAddress without its catch block.
getPairAddressRethrows(d, ps, tokenA, tokenB, env) ==
    getPairAddressTry(d, ps, tokenA, tokenB, env)

\* getPairAddress: the catch block turns every throw of the body into null.
getPairAddress(d, ps, tokenA, tokenB, env) ==
    LET r == getPairAddressTry(d, ps, tokenA, tokenB, env)
    IN IF r.kind = "throw" THEN Null ELSE r

\* Mutant: the lookup's null is compared with undefined, so every pair "exists".
canSwapDirectlyNotUndefined(d, ps, tokenA, tokenB, env) ==
    getPairAddress(d, ps, tokenA, tokenB, env).kind # "undefined"

canSwapDirectly(d, ps, tokenA, tokenB, env) ==
    getPairAddress(d, ps, tokenA, tokenB, env).kind # "null"

\* Mutant: the bridge check looks at the first leg only.
CanRouteViaFirstLeg(d, ps, tokenIn, bridge, tokenOut, env) ==
    canSwapDirectly(d, ps, tokenIn, bridge, env)

\* The two-leg existence check of one bridge candidate.
CanRouteVia(d, ps, tokenIn, bridge, tokenOut, env) ==
    /\ canSwapDirectly(d, ps, tokenIn, bridge, env)
    /\ canSwapDirectly(d, ps, bridge, tokenOut, env)

\* Mutant: PancakeSwap and Camelot try their two stablecoins in the other order.
StableBridgesSwapped(d) ==
    CASE d = "KalySwap" -> <<"USDT">>
      [] d = "PancakeSwap" -> <<"BUSD", "USDT">>
      [] d = "Camelot" -> <<"USDT", "USDC">>

\* The stablecoin symbols an adapter's getSwapRoute tries, in code order.
StableBridges(d) ==
    CASE d = "KalySwap" -> <<"USDT">>
      [] d = "PancakeSwap" -> <<"USDT", "BUSD">>
      [] d = "Camelot" -> <<"USDC", "USDT">>

\* The stablecoin steps of getSwapRoute from step i on.
RECURSIVE StableRoute(_, _, _, _, _, _, _, _)
StableRoute(d, ps, tokenIn, tokenOut, addressIn, addressOut, env, i) ==
    IF i > Len(StableBridges(d)) THEN <<>>
    ELSE LET sym == StableBridges(d)[i]
             tokens == ConfigTokens(d)
             stable == FindToken(tokens, {k \in 1..Len(tokens) : tokens[k].symbol = sym})
         IN IF /\ stable # Undefined
               /\ addressIn # stable.address
               /\ addressOut # stable.address
               /\ CanRouteVia(d, ps, tokenIn, stable, tokenOut, env)
            THEN <<addressIn, stable.address, addressOut>>
            ELSE StableRoute(d, ps, tokenIn, tokenOut, addressIn, addressOut, env, i + 1)

\* getSwapRoute of the three adapters (each overrides the base's).
getSwapRoute(d, ps, tokenIn, tokenOut, env) ==
    LET addressIn == IF tokenIn.isNative THEN getWethAddress(d) ELSE tokenIn.address
        addressOut == IF tokenOut.isNative THEN getWethAddress(d) ELSE tokenOut.address
        wethAddress == getWethAddress(d)
        tokens == ConfigTokens(d)
        wethToken == FindToken(tokens, {k \in 1..Len(tokens) :
                        toLowerCase(tokens[k].address) = toLowerCase(wethAddress)})
    IN IF canSwapDirectly(d, ps, tokenIn, tokenOut, env)
       THEN <<addressIn, addressOut>>
       ELSE IF /\ addressIn # wethAddress
               /\ addressOut # wethAddress
               /\ wethToken # Undefined
               /\ CanRouteVia(d, ps, tokenIn, wethToken, tokenOut, env)
            THEN <<addressIn, wethAddress, addressOut>>
            ELSE StableRoute(d, ps, tokenIn, tokenOut, addressIn, addressOut, env, 1)

\* ------------------------------------------------------------ amounts

RECURSIVE Pow10(_)
Pow10(n) == IF n = 0 THEN 1 ELSE 10 * Pow10(n - 1)

\* The human-readable amounts callers type.
AmountStrings == {"1", "1.5"}

\* The integer part and the fraction digits of a decimal string.
DecimalParts(s) ==
    CASE s = "1" -> [int |-> 1, frac |-> <<>>]
      [] s = "1.5" -> [int |-> 1, frac |-> <<5>>]
      [] s = "2" -> [int |-> 2, frac |-> <<>>]
      [] s = "3" -> [int |-> 3, frac |-> <<>>]

\* viem parseUnits(value, decimals): the amount in base units.
RECURSIVE FractionUnits(_, _, _)
FractionUnits(frac, decimals, k) ==
    IF k > Len(frac) \/ k > decimals THEN 0
    ELSE frac[k] * Pow10(decimals - k) + FractionUnits(frac, decimals, k + 1)

parseUnits(s, decimals) ==
    DecimalParts(s).int * Pow10(decimals) + FractionUnits(DecimalParts(s).frac, decimals, 1)

\* viem formatUnits(value, decimals): the decimal string of a base-unit amount,
\* the fraction padded to `decimals` digits and its trailing zeros dropped.
RECURSIVE PaddedDigits(_, _)
PaddedDigits(v, n) ==
    IF n = 0 THEN "" ELSE PaddedDigits(v \div 10, n - 1) \o ToString(v % 10)

RECURSIVE FractionDigits(_, _)
FractionDigits(v, n) ==
    IF v % 10 = 0 THEN FractionDigits(v \div 10, n - 1) ELSE PaddedDigits(v, n)

formatUnits(v, decimals) ==
    LET int == v \div Pow10(decimals)
        frac == v % Pow10(decimals)
    IN IF frac = 0 THEN ToString(int)
       ELSE ToString(int) \o "." \o FractionDigits(frac, decimals)

\* A JavaScript value that is a number (the rational n/dn) or a string.
Number(n, dn) == [t |-> "number", n |-> n, dn |-> dn, s |-> ""]
String(s) == [t |-> "string", n |-> 0, dn |-> 1, s |-> s]

\* parseFloat of a decimal string, as a rational.
parseFloat(s) ==
    LET p == DecimalParts(s)
    IN Number(p.int * Pow10(Len(p.frac)) + FractionUnits(p.frac, Len(p.frac), 1),
              Pow10(Len(p.frac)))

\* ------------------------------------------------- pair and router contracts

\* The decimals of the ERC20 contract at a (lower-case) address.
ChainDecimals(d, a) ==
    (CHOOSE t \in InputTokens(d) : ~t.isNative /\ toLowerCase(t.address) = a).decimals

\* Whole units of a token held by each of its pools.
PoolUnits(a) ==
    CASE a \in {"0xwklc", "0xwbnb", "0xweth"} -> 8
      [] a = "0xusdt" -> 4
      [] a \in {"0xusdc", "0xbusd"} -> 5
      [] a = "0xtka" -> 6
      [] a = "0xtkc" -> 3

\* pair.token0(): the lower of the pair's two addresses.
PairToken0(p) == CHOOSE a \in p : \A b \in p : AddressRank(a) <= AddressRank(b)
PairToken1(p) == CHOOSE a \in p : a # PairToken0(p)

\* The pool's reserve of one of its two tokens, in base units.
ReserveOf(d, a) == PoolUnits(a) * Pow10(ChainDecimals(d, a))

\* pair.getReserves(): (reserve0, reserve1) in the factory's token order.
PairReserves(d, p) == <<ReserveOf(d, PairToken0(p)), ReserveOf(d, PairToken1(p))>>

\* UniswapV2Library.getAmountOut with the 0.3% fee.
getAmountOut(amountIn, reserveIn, reserveOut) ==
    (amountIn * 997 * reserveOut) \div (reserveIn * 1000 + amountIn * 997)

\* router.getAmountsOut(amountIn, path): the amounts along the path; it
\* reverts for a hop whose input is 0 and for a hop whose pair was never created.
RECURSIVE RouterAmounts(_, _, _, _, _)
RouterAmounts(d, ps, amount, path, i) ==
    IF i >= Len(path) THEN <<amount>>
    ELSE <<amount>> \o
         RouterAmounts(d, ps,
                       getAmountOut(amount, ReserveOf(d, toLowerCase(path[i])),
                                    ReserveOf(d, toLowerCase(path[i + 1]))),
                       path, i + 1)

getAmountsOut(d, ps, amountIn, path, env) ==
    IF \/ env \in {"rpcDown", "routerFail"}
       \/ amountIn <= 0
       \/ Len(path) < 2
       \/ \E i \in 1..(Len(path) - 1) :
             {toLowerCase(path[i]), toLowerCase(path[i + 1])} \notin ps
    THEN Throw("CALL_EXCEPTION")
    ELSE LET amounts == RouterAmounts(d, ps, amountIn, path, 1)
         IN IF \E i \in 1..(Len(amounts) - 1) : amounts[i] <= 0
            THEN Throw("CALL_EXCEPTION")
            ELSE Return(amounts)

\* ---------------------------------------------------------- pair info

PairInfo(token0, token1, pairAddress, reserve0, reserve1, totalSupply) ==
    [token0 |-> token0, token1 |-> token1, pairAddress |-> pairAddress,
     reserve0 |-> reserve0, reserve1 |-> reserve1, totalSupply |-> totalSupply]

\* pair.totalSupply(): the liquidity tokens minted for the pool.
PairTotalSupply(d, p) == PairReserves(d, p)[1] + PairReserves(d, p)[2]

\* The body of getPairInfo's try block.
getPairInfoTry(d, ps, tokenA, tokenB, env) ==
    LET pairAddress == getPairAddress(d, ps, tokenA, tokenB, env)
    IN IF pairAddress.kind = "null" THEN Null
       ELSE IF env = "noClient" THEN Throw("NO_CLIENT")
       ELSE IF env = "pairFail" THEN Throw("CALL_EXCEPTION")
       ELSE
        LET addressA == IF tokenA.isNative THEN getWethAddress(d) ELSE tokenA.address
            addressB == IF tokenB.isNative THEN getWethAddress(d) ELSE tokenB.address
            p == {toLowerCase(addressA), toLowerCase(addressB)}
            reserves == PairReserves(d, p)
            totalSupply == PairTotalSupply(d, p)
        IN Return(PairInfo(tokenA, tokenB, pairAddress.value,
                           ToString(reserves[1]), ToString(reserves[2]),
                           ToString(totalSupply)))

\* getPairInfo: the catch block turns every throw of the body into null.
getPairInfo(d, ps, tokenA, tokenB, env) ==
    LET r == getPairInfoTry(d, ps, tokenA, tokenB, env)
    IN IF r.kind = "throw" THEN Null ELSE r

\* ------------------------------------------------ price impact and quote

\* The error classes of IDexService: DexError and its subclasses keep their code.
DexErrorCodes == {"PAIR_NOT_FOUND", "NO_CLIENT", "NO_WALLET", "NO_ACCOUNT",
                  "QUOTE_FAILED", "SWAP_FAILED", "UNSUPPORTED_TOKEN"}

\* Mutant: Math.max in place of Math.min.
MaxNumber(a, b) == IF a.n * b.dn >= b.n * a.dn THEN a ELSE b

MinNumber(a, b) == IF a.n * b.dn <= b.n * a.dn THEN a ELSE b

\* Mutant: the input-side reserve is taken by position, reserve0 for tokenIn.
calculatePriceImpactPositional(d, ps, tokenIn, tokenOut, amountIn, env) ==
    LET pairAddress == getPairAddress(d, ps, tokenIn, tokenOut, env)
    IN IF pairAddress.kind = "null" THEN Return(Number(0, 1))
       ELSE IF env = "pairFail" THEN Throw("CALL_EXCEPTION")
       ELSE
        LET tokenInAddress == IF tokenIn.isNative THEN getWethAddress(d) ELSE tokenIn.address
            tokenOutAddress == IF tokenOut.isNative THEN getWethAddress(d) ELSE tokenOut.address
            p == {toLowerCase(tokenInAddress), toLowerCase(tokenOutAddress)}
            reserveInFormatted == Number(PairReserves(d, p)[1], Pow10(tokenIn.decimals))
            amountInValue == parseFloat(amountIn)
            priceImpact ==
                Number(amountInValue.n * reserveInFormatted.dn * 100,
                       reserveInFormatted.n * amountInValue.dn
                           + amountInValue.n * reserveInFormatted.dn)
        IN Return(MinNumber(priceImpact, Number(100, 1)))

\* The body of calculatePriceImpact's try block.
calculatePriceImpactTry(d, ps, tokenIn, tokenOut, amountIn, env) ==
    LET pairAddress == getPairAddress(d, ps, tokenIn, tokenOut, env)
    IN IF pairAddress.kind = "null" THEN Return(Number(0, 1))
       ELSE IF env = "pairFail" THEN Throw("CALL_EXCEPTION")
       ELSE
        LET tokenInAddress == IF tokenIn.isNative THEN getWethAddress(d) ELSE tokenIn.address
            tokenOutAddress == IF tokenOut.isNative THEN getWethAddress(d) ELSE tokenOut.address
            p == {toLowerCase(tokenInAddress), toLowerCase(tokenOutAddress)}
            reserves == PairReserves(d, p)
            token0Address == PairToken0(p)
            isTokenInToken0 == toLowerCase(token0Address) = toLowerCase(tokenInAddress)
            reserveIn == IF isTokenInToken0 THEN reserves[1] ELSE reserves[2]
            \* parseFloat(formatUnits(reserveIn, tokenIn.decimals))
            reserveInFormatted == Number(reserveIn, Pow10(tokenIn.decimals))
            amountInValue == parseFloat(amountIn)
            \* amountIn / (reserveIn + amountIn) * 100
            priceImpact ==
                Number(amountInValue.n * reserveInFormatted.dn * 100,
                       reserveInFormatted.n * amountInValue.dn
                           + amountInValue.n * reserveInFormatted.dn)
        IN Return(MinNumber(priceImpact, Number(100, 1)))

\* calculatePriceImpact: the catch block answers 0 for every throw.
calculatePriceImpact(d, ps, tokenIn, tokenOut, amountIn, env) ==
    LET r == calculatePriceImpactTry(d, ps, tokenIn, tokenOut, amountIn, env)
    IN IF r.kind = "throw" THEN Number(0, 1) ELSE r.value

QuoteResult(amountOut, priceImpact, route, gasEstimate) ==
    [amountOut |-> amountOut, priceImpact |-> priceImpact, route |-> route,
     gasEstimate |-> gasEstimate]

\* Mutant: the two decimal counts are interchanged.
BaseGetQuoteTrySwapsDecimals(d, ps, tokenIn, tokenOut, amountIn, env) ==
    LET route == getSwapRoute(d, ps, tokenIn, tokenOut, env)
    IN IF Len(route) = 0 THEN Throw("PAIR_NOT_FOUND")
       ELSE IF env = "noClient" THEN Throw("NO_CLIENT")
       ELSE
        LET amountInWei == parseUnits(amountIn, tokenOut.decimals)
            amounts == getAmountsOut(d, ps, amountInWei, route, env)
        IN IF amounts.kind = "throw" THEN Throw(amounts.code)
           ELSE
            LET amountOut == amounts.value[Len(amounts.value)]
                formattedAmountOut == formatUnits(amountOut, tokenIn.decimals)
                priceImpact == calculatePriceImpact(d, ps, tokenIn, tokenOut, amountIn, env)
            IN Return(QuoteResult(formattedAmountOut, priceImpact, route, "200000"))

\* The body of BaseDexService.getQuote's try block.
BaseGetQuoteTry(d, ps, tokenIn, tokenOut, amountIn, env) ==
    LET route == getSwapRoute(d, ps, tokenIn, tokenOut, env)
    IN IF Len(route) = 0 THEN Throw("PAIR_NOT_FOUND")
       ELSE IF env = "noClient" THEN Throw("NO_CLIENT")
       ELSE
        LET amountInWei == parseUnits(amountIn, tokenIn.decimals)
            amounts == getAmountsOut(d, ps, amountInWei, route, env)
        IN IF amounts.kind = "throw" THEN Throw(amounts.code)
           ELSE
            LET amountOut == amounts.value[Len(amounts.value)]
                formattedAmountOut == formatUnits(amountOut, tokenOut.decimals)
                priceImpact == calculatePriceImpact(d, ps, tokenIn, tokenOut, amountIn, env)
            IN Return(QuoteResult(formattedAmountOut, priceImpact, route, "200000"))

\* Mutant: the catch block wraps every error, a DexError too.
BaseGetQuoteWrapsAll(d, ps, tokenIn, tokenOut, amountIn, env) ==
    LET r == BaseGetQuoteTry(d, ps, tokenIn, tokenOut, amountIn, env)
    IN IF r.kind = "throw" THEN Throw("QUOTE_FAILED") ELSE r

\* Mutant: the catch block reports every failure as a missing pair.
BaseGetQuoteMasksFailure(d, ps, tokenIn, tokenOut, amountIn, env) ==
    LET r == BaseGetQuoteTry(d, ps, tokenIn, tokenOut, amountIn, env)
    IN IF r.kind = "throw" /\ r.code \notin DexErrorCodes THEN Throw("PAIR_NOT_FOUND") ELSE r

\* BaseDexService.getQuote: a DexError passes, anything else becomes QUOTE_FAILED.
BaseGetQuote(d, ps, tokenIn, tokenOut, amountIn, env) ==
    LET r == BaseGetQuoteTry(d, ps, tokenIn, tokenOut, amountIn, env)
    IN IF r.kind = "throw" /\ r.code \notin DexErrorCodes THEN Throw("QUOTE_FAILED") ELSE r

\* ------------------------------------------------------- the adapters

isWrapOperation(d, tokenIn, tokenOut) ==
    LET isFromNative == tokenIn.isNative = TRUE
        isToWrapped == \/ toUpperCase(tokenOut.symbol) = AdapterWrappedSymbol(d)
                       \/ toLowerCase(tokenOut.address) = toLowerCase(AdapterWrappedAddress(d))
    IN isFromNative /\ isToWrapped

isUnwrapOperation(d, tokenIn, tokenOut) ==
    LET isFromWrapped == \/ toUpperCase(tokenIn.symbol) = AdapterWrappedSymbol(d)
                         \/ toLowerCase(tokenIn.address) = toLowerCase(AdapterWrappedAddress(d))
        isToNative == tokenOut.isNative = TRUE
    IN isFromWrapped /\ isToNative

\* The priceImpact literal of each adapter's wrap/unwrap quote.
WrapPriceImpact(d) ==
    IF d = "Camelot" THEN String("0") ELSE Number(0, 1)

\* getQuote of the three adapters: the 1:1 short-circuit, else the base's.
getQuote(d, ps, tokenIn, tokenOut, amountIn, env) ==
    IF isWrapOperation(d, tokenIn, tokenOut) \/ isUnwrapOperation(d, tokenIn, tokenOut)
    THEN Return(QuoteResult(amountIn, WrapPriceImpact(d),
                            <<tokenIn.address, tokenOut.address>>, "undefined"))
    ELSE BaseGetQuote(d, ps, tokenIn, tokenOut, amountIn, env)


\* ------------------------------------------------ executeSwap (adapters)

\* The wallet client handed to executeSwap: absent, without an account, or one
\* whose writeContract resolves to a hash, rejects with an Error (the user
\* rejected the signature, the network refused the submission) or rejects
\* with a value that is no Error.
WalletStates == {"ok", "noWallet", "noAccount", "rejected", "network", "nonError"}

WalletErrorMessage(w) ==
    CASE w = "rejected" -> "User rejected the request"
      [] w = "network" -> "Network request failed"
      [] OTHER -> ""

RouterAddress(d) == "0xRouter:" \o d

NativeInputFunction(d) ==
    IF d = "KalySwap" THEN "swapExactKLCForTokens" ELSE "swapExactETHForTokens"

NativeOutputFunction(d) ==
    IF d = "KalySwap" THEN "swapExactTokensForKLC" ELSE "swapExactTokensForETH"

\* The request object of walletClient.writeContract; `value` holds the native
\* value when the request has the key, and is empty when it has not.
WriteRequest(address, functionName, args, value) ==
    [address |-> address, functionName |-> functionName, args |-> args, value |-> value]

TxHash(req) == "0xTx:" \o req.functionName

\* walletClient.writeContract: the hash of the submitted transaction, or a rejection.
writeContract(wallet, req) ==
    CASE wallet = "ok" -> Return(TxHash(req))
      [] wallet = "nonError" -> ThrowMsg("NON_ERROR", "")
      [] OTHER -> ThrowMsg("ERROR", WalletErrorMessage(wallet))

\* SwapParams: `route` is empty when the caller gives no route, else holds it.
SwapParams(tokenIn, tokenOut, amountIn, amountOutMin, to, deadline, route) ==
    [tokenIn |-> tokenIn, tokenOut |-> tokenOut, amountIn |-> amountIn,
     amountOutMin |-> amountOutMin, to |-> to, deadline |-> deadline, route |-> route]

\* The outcome of executeSwap and the write requests it handed to the wallet.
SwapOutcome(res, writes) == [res |-> res, writes |-> writes]

\* new SwapFailedError(dexName, reason)
SwapFailedError(d, reason) == ThrowMsg("SWAP_FAILED", reason)

\* Mutant: executeSwap sends an approve of its own before the write.
SubmitWriteAfterApprove(wallet, req) ==
    SwapOutcome(writeContract(wallet, req),
                <<WriteRequest(req.address, "approve", <<>>, <<>>), req>>)

\* One writeContract call as executeSwap makes it: the hash is returned at once.
SubmitWrite(wallet, req) == SwapOutcome(writeContract(wallet, req), <<req>>)

\* Mutant: the native-output swap attaches amountIn as value as well.
SwapTokensForNativeWithValue(d, params, wallet, route, amountIn, amountOutMin) ==
    SubmitWrite(wallet, WriteRequest(RouterAddress(d), NativeOutputFunction(d),
        <<amountIn, amountOutMin, route, params.to, params.deadline>>, <<amountIn>>))

\* The write of a swap whose tokenOut is the native asset.
SwapTokensForNative(d, params, wallet, route, amountIn, amountOutMin) ==
    SubmitWrite(wallet, WriteRequest(RouterAddress(d), NativeOutputFunction(d),
        <<amountIn, amountOutMin, route, params.to, params.deadline>>, <<>>))

\* The try block of executeSwap.
executeSwapTry(d, ps, params, wallet, env) ==
    IF wallet = "noWallet" THEN SwapOutcome(Throw("NO_WALLET"), <<>>)
    ELSE IF wallet = "noAccount" THEN SwapOutcome(Throw("NO_ACCOUNT"), <<>>)
    ELSE
    LET amountIn == parseUnits(params.amountIn, params.tokenIn.decimals)
        isWrap == isWrapOperation(d, params.tokenIn, params.tokenOut)
        isUnwrap == isUnwrapOperation(d, params.tokenIn, params.tokenOut)
    IN IF isWrap
       THEN SubmitWrite(wallet, WriteRequest(AdapterWrappedAddress(d), "deposit",
                                             <<>>, <<amountIn>>))
       ELSE IF isUnwrap
       THEN SubmitWrite(wallet, WriteRequest(AdapterWrappedAddress(d), "withdraw",
                                             <<amountIn>>, <<>>))
       ELSE
       LET route == IF params.route # <<>> THEN params.route[1]
                    ELSE getSwapRoute(d, ps, params.tokenIn, params.tokenOut, env)
           amountOutMin == parseUnits(params.amountOutMin, params.tokenOut.decimals)
       IN IF Len(route) = 0
          THEN SwapOutcome(SwapFailedError(d, "No swap route available"), <<>>)
          ELSE IF params.tokenIn.isNative
          THEN SubmitWrite(wallet, WriteRequest(RouterAddress(d), NativeInputFunction(d),
                   <<amountOutMin, route, params.to, params.deadline>>, <<amountIn>>))
          ELSE IF params.tokenOut.isNative
          THEN SwapTokensForNative(d, params, wallet, route, amountIn, amountOutMin)
          ELSE SubmitWrite(wallet, WriteRequest(RouterAddress(d), "swapExactTokensForTokens",
                   <<amountIn, amountOutMin, route, params.to, params.deadline>>, <<>>))

\* Mutant: the catch block swallows the failure and returns an empty hash.
executeSwapCatchReturns(d, r) ==
    IF r.res.kind # "throw" THEN r ELSE SwapOutcome(Return(""), r.writes)

\* The catch block of executeSwap: a DexError is rethrown, anything else is
\* wrapped in a SwapFailedError with the Error's message or 'Unknown error'.
executeSwapCatch(d, r) ==
    IF r.res.kind # "throw" \/ r.res.code \in DexErrorCodes THEN r
    ELSE SwapOutcome(SwapFailedError(d, IF r.res.code = "ERROR" THEN r.res.msg
                                        ELSE "Unknown error"), r.writes)

executeSwap(d, ps, params, wallet, env) ==
    executeSwapCatch(d, executeSwapTry(d, ps, params, wallet, env))

\* ------------------------------------------- pair statistics and charts

\* The stablecoin symbols of the token-order normalization.
stablecoins == {"USDT", "USDC", "DAI", "BUSD", "KUSD"}

\* Mutant: the normalization without its stablecoin rule for tokenA.
normalizedTokensKeepsStableFirst(tokenA, tokenB) ==
    IF tokenA = Undefined \/ tokenB = Undefined THEN <<tokenA, tokenB>>
    ELSE IF (tokenA.symbol \in stablecoins) # (tokenB.symbol \in stablecoins)
         THEN <<tokenA, tokenB>>
    ELSE IF AddressRank(toLowerCase(tokenA.address)) < AddressRank(toLowerCase(tokenB.address))
         THEN <<tokenA, tokenB>> ELSE <<tokenB, tokenA>>

\* [normalizedTokenA, normalizedTokenB] of usePairMarketStats; the string
\* comparison of two lower-cased addresses is the order of their ranks.
normalizedTokens(tokenA, tokenB) ==
    IF tokenA = Undefined \/ tokenB = Undefined THEN <<tokenA, tokenB>>
    ELSE LET isTokenAStable == tokenA.symbol \in stablecoins
             isTokenBStable == tokenB.symbol \in stablecoins
             addrA == toLowerCase(tokenA.address)
             addrB == toLowerCase(tokenB.address)
         IN IF isTokenAStable /\ ~isTokenBStable THEN <<tokenB, tokenA>>
            ELSE IF isTokenBStable /\ ~isTokenAStable THEN <<tokenA, tokenB>>
            ELSE IF AddressRank(addrA) < AddressRank(addrB)
                 THEN <<tokenA, tokenB>> ELSE <<tokenB, tokenA>>

\* [normalizedTokenA, normalizedTokenB] of useHistoricalPriceData.
historicalNormalizedTokens(tokenA, tokenB) ==
    IF tokenA = Undefined \/ tokenB = Undefined THEN <<tokenA, tokenB>>
    ELSE LET isTokenAStable == tokenA.symbol \in stablecoins
             isTokenBStable == tokenB.symbol \in stablecoins
             addrA == toLowerCase(tokenA.address)
             addrB == toLowerCase(tokenB.address)
         IN IF isTokenAStable /\ ~isTokenBStable THEN <<tokenB, tokenA>>
            ELSE IF isTokenBStable /\ ~isTokenAStable THEN <<tokenA, tokenB>>
            ELSE IF AddressRank(addrA) < AddressRank(addrB)
                 THEN <<tokenA, tokenB>> ELSE <<tokenB, tokenA>>

\* The dependencies of fetchHistoricalData: the normalized token pair ("none"
\* when hasValidTokens is false) and whether the pair address is known.
ChartDeps ==
    {[tokens |-> "none", pairAddress |-> FALSE]}
        \cup [tokens : {"AB", "CD"}, pairAddress : BOOLEAN]

\* The hook before its first effect: useState initial values, the ref's
\* initial flag (0, never cancelled by a fetch).
NoChart ==
    [mounted |-> FALSE, deps |-> [tokens |-> "none", pairAddress |-> FALSE],
     issued |-> 0, ref |-> 0, cancelled |-> {}, inflight |-> {},
     priceData |-> "empty", error |-> "null", isLoading |-> TRUE]

\* isChainSupported of the GeckoTerminal client: BSC and Arbitrum; KalyChain
\* is served by the subgraph.
isGeckoTerminalSupported(d) == d # "KalySwap"

\* What the awaited requests of a fetch give: chart data, no usable data (no
\* pool, no pool information, no candles, a pair the subgraph has not indexed)
\* or a rejection.
FetchOutcomes == {"data", "noData", "throw"}

\* fetchHistoricalData up to its first await: a new cancel flag takes the
\* place of the one in cancelFetchRef, then the synchronous branches.
fetchHistoricalData(c, d, deps) ==
    LET id == c.issued + 1
        flagged == [c EXCEPT !.issued = id, !.ref = id, !.deps = deps]
    IN IF deps.tokens = "none"
       THEN [flagged EXCEPT !.priceData = "empty", !.error = "Invalid token pair",
                            !.isLoading = FALSE]
       ELSE IF ~isGeckoTerminalSupported(d) /\ ~deps.pairAddress
       THEN [flagged EXCEPT !.priceData = "empty",
                            !.error = "No liquidity pool exists for this token pair",
                            !.isLoading = FALSE]
       ELSE [flagged EXCEPT !.isLoading = TRUE, !.error = "null",
                            !.inflight = c.inflight \cup {[id |-> id, deps |-> deps]}]

\* The rest of fetchHistoricalData on the GeckoTerminal path: every write is
\* behind a test of the fetch's own cancel flag.
GeckoTerminalCommit(c, f, outcome) ==
    IF f.id \in c.cancelled THEN c
    ELSE CASE outcome = "data" ->
                [c EXCEPT !.priceData = f.deps.tokens, !.isLoading = FALSE]
           [] outcome = "noData" ->
                [c EXCEPT !.priceData = "empty", !.error = "Chart data not available",
                          !.isLoading = FALSE]
           [] outcome = "throw" ->
                [c EXCEPT !.priceData = "empty", !.error = "Failed to fetch historical data",
                          !.isLoading = FALSE]

\* The rest of fetchHistoricalData on the subgraph path: the data and the
\* "not available" branches write at once; catch and finally test the flag.
SubgraphCommit(c, f, outcome) ==
    LET cancel == f.id \in c.cancelled
        written ==
            CASE outcome = "data" -> [c EXCEPT !.priceData = f.deps.tokens]
              [] outcome = "noData" ->
                   [c EXCEPT !.priceData = "empty",
                             !.error = "Chart data not available - subgraph is syncing"]
              [] outcome = "throw" ->
                   IF cancel THEN c
                   ELSE [c EXCEPT !.priceData = "empty",
                                  !.error = "Failed to fetch historical data"]
    IN IF cancel THEN written ELSE [written EXCEPT !.isLoading = FALSE]

\* ------------------------------------------------- the token list service

\* TOKEN_LIST_SETTINGS.CACHE_TTL, in ticks of the model's clock.
CACHE_TTL == 2

\* The URLs of the configured token lists.
ListUrls == {"/api/token-lists/kalyswap", "https://tokens.example/list.json"}

JsUndefined == [t |-> "undefined", n |-> 0, dn |-> 1, s |-> ""]

\* A token of a fetched list as JSON: each field is a string, a number or absent.
ListToken(address, symbol, name, decimals, chainId, logoURI) ==
    [isObject |-> TRUE, address |-> address, symbol |-> symbol, name |-> name,
     decimals |-> decimals, chainId |-> chainId, logoURI |-> logoURI]

GoodToken ==
    ListToken(String("0xTka"), String("TKA"), String("Token A"),
              Number(18, 1), Number(3888, 1), String(""))

\* A fetched document: a JSON value that may or may not be a token list.
ListDocument(isObject, name, version, tokensIsArray, tokens) ==
    [isObject |-> isObject, name |-> name, version |-> version,
     tokensIsArray |-> tokensIsArray, tokens |-> tokens]

GoodVersion == [major |-> Number(1, 1), minor |-> Number(0, 1), patch |-> Number(0, 1)]

\* What a list URL may answer with: two valid lists (one with no tokens),
\* and documents that break the schema in one place each.
ListDocuments ==
    { ListDocument(TRUE, String("KalySwap Default"), GoodVersion, TRUE, <<GoodToken>>),
      ListDocument(TRUE, String("KalySwap Default"), GoodVersion, TRUE, <<>>),
      ListDocument(FALSE, JsUndefined, GoodVersion, FALSE, <<>>),
      ListDocument(TRUE, Number(7, 1), GoodVersion, TRUE, <<GoodToken>>),
      ListDocument(TRUE, String("No patch"),
                   [GoodVersion EXCEPT !.patch = String("0")], TRUE, <<GoodToken>>),
      ListDocument(TRUE, String("No array"), GoodVersion, FALSE, <<>>),
      ListDocument(TRUE, String("Empty symbol"), GoodVersion, TRUE,
                   <<GoodToken, [GoodToken EXCEPT !.symbol = String("")]>>),
      ListDocument(TRUE, String("Negative decimals"), GoodVersion, TRUE,
                   <<[GoodToken EXCEPT !.decimals = Number(0 - 1, 1)]>>),
      ListDocument(TRUE, String("No chain"), GoodVersion, TRUE,
                   <<[GoodToken EXCEPT !.chainId = Number(0, 1)]>>),
      ListDocument(TRUE, String("No logo"), GoodVersion, TRUE,
                   <<[GoodToken EXCEPT !.logoURI = JsUndefined]>>),
      ListDocument(TRUE, String("Null token"), GoodVersion, TRUE,
                   <<[GoodToken EXCEPT !.isObject = FALSE]>>) }

\* Mutant: validateToken accepts every token.
validateTokenAcceptsAll(token) == TRUE

\* validateToken
validateToken(token) ==
    /\ token.isObject
    /\ token.address.t = "string"
    /\ token.symbol.t = "string"
    /\ token.name.t = "string"
    /\ token.decimals.t = "number"
    /\ token.chainId.t = "number"
    /\ token.logoURI.t = "string"
    /\ token.address.s # ""
    /\ token.symbol.s # ""
    /\ token.name.s # ""
    /\ token.decimals.n >= 0
    /\ token.chainId.n > 0

\* validateTokenList
validateTokenList(tokenList) ==
    /\ tokenList.isObject
    /\ tokenList.name.t = "string"
    /\ tokenList.version.major.t = "number"
    /\ tokenList.version.minor.t = "number"
    /\ tokenList.version.patch.t = "number"
    /\ tokenList.tokensIsArray
    /\ \A i \in 1..Len(tokenList.tokens) : validateToken(tokenList.tokens[i])

\* A slot of the cache Map without an entry.
NoEntry == [present |-> FALSE, data |-> Null, timestamp |-> 0]

CacheEntry(data, timestamp) == [present |-> TRUE, data |-> data, timestamp |-> timestamp]

\* The service after construction: an empty cache; `last` is the outcome of
\* the last fetchTokenList call that has returned.
NoTokenLists ==
    [cache |-> [u \in ListUrls |-> NoEntry], now |-> 0, inflight |-> {}, issued |-> 0,
     last |-> [url |-> "", res |-> Null]]

\* The cache test of fetchTokenList.
CacheHit(s, url) ==
    s.cache[url].present /\ s.now - s.cache[url].timestamp < CACHE_TTL

\* fetchTokenList after its await of fetchJSON: a valid list is cached and
\* returned; an invalid list, or a failed fetch (answer Null), gives null.
fetchTokenListSettles(s, req, answer) ==
    LET t == [s EXCEPT !.inflight = s.inflight \ {req}]
    IN IF answer # Null /\ validateTokenList(answer)
       THEN [t EXCEPT !.cache[req.url] = CacheEntry(answer, s.now),
                      !.last = [url |-> req.url, res |-> Return(answer)]]
       ELSE [t EXCEPT !.last = [url |-> req.url, res |-> Null]]

\* ---------------------------------------------------- the subgraph client

\* The retries argument of requestWithRetry: 2 by default; below 0 the loop
\* body never runs.
RetriesArgs == (0 - 1)..MaxRetries

\* What graphqlClient.request settles with: a result, or one of two errors.
RequestAnswers == {Return("result"), Throw("NETWORK"), Throw("GRAPHQL")}

RECURSIVE Pow2(_)
Pow2(n) == IF n = 0 THEN 1 ELSE 2 * Pow2(n - 1)

\* A delay that grows by one second with each attempt.
RetryDelayLinear(a) == (a + 1) * 1000

\* Math.pow(2, attempt) * 1000, the milliseconds given to setTimeout.
RetryDelay(a) == Pow2(a) * 1000

\* requestWithRetry before it is called.
\*   pc: idle, requesting (awaiting graphqlClient.request), waiting (awaiting
\*   the timer), returned, threw;  answers: what each request settled with;
\*   waits: the delay of each timer set;  res: the outcome of the call.
NoRetry == [pc |-> "idle", retries |-> 0, attempt |-> 0, sent |-> 0,
            answers |-> <<>>, waits |-> <<>>, res |-> Null]

\* The head of the for loop: the next request leaves while attempt <= retries,
\* and the loop falls through to the final throw otherwise.
RetryLoopHead(r) ==
    IF r.attempt <= r.retries
    THEN [r EXCEPT !.pc = "requesting", !.sent = r.sent + 1]
    ELSE [r EXCEPT !.pc = "threw",
                   !.res = ThrowMsg("Error", "All retry attempts failed")]

\* The awaited request settles: a result is returned; an error is thrown again
\* on the last attempt and is followed by a timer otherwise.
RetryRequestSettles(r, answer) ==
    LET s == [r EXCEPT !.answers = Append(r.answers, answer)] IN
    IF answer.kind = "return"
    THEN [s EXCEPT !.pc = "returned", !.res = answer]
    ELSE IF r.attempt = r.retries
         THEN [s EXCEPT !.pc = "threw", !.res = answer]
         ELSE [s EXCEPT !.pc = "waiting",
                        !.waits = Append(r.waits, RetryDelay(r.attempt))]

\* ----------------------------------------- the internal wallet connector

\* The ids of kalychain, bsc and arbitrum.
SUPPORTED_CHAINS == {3888, 56, 42161}

\* The supported chains with this id: none when find answers undefined.
getChainById(chainId) == {c \in SUPPORTED_CHAINS : c = chainId}

Wallet(id, address, chainId) == [id |-> id, address |-> address, chainId |-> chainId]

\* null in the place of a wallet.
NullWallet == Wallet("null", "null", 0)

W1 == Wallet("w1", "0xa1", 3888)
W2 == Wallet("w2", "0xb2", 56)
W3 == Wallet("w3", "0xc3", 3888)

\* The wallets a user may hold: two of them on one chain, none on arbitrum.
Wallets == {W1, W2, W3}

\* The wallet ids given to selectWallet and removeWallet: one of them unknown.
WalletIds == {"w1", "w2", "w3", "w9"}

\* The chain ids given to switchChain and switchToChain: one of them unsupported.
ChainIdArgs == {3888, 56, 42161, 1}

\* What the Me query answers: errors, or the wallets of the user.
ServerAnswers ==
    {[errors |-> TRUE, wallets |-> <<>>]}
      \cup {[errors |-> FALSE, wallets |-> l] :
               l \in {<<>>, <<W1>>, <<W1, W2>>, <<W2, W3>>}}

\* internalWalletState as the module creates it.
EmptyWalletState ==
    [isConnected |-> FALSE, activeWallet |-> NullWallet, availableWallets |-> <<>>]

\* localStorage.setItem(STORAGE_KEY, JSON.stringify(state)): the item, as the
\* list of the one state it holds.
saveStateToStorage(state) == <<state>>

\* JSON.parse of the item, field by field; the empty state without an item.
loadStateFromStorage(storage) ==
    IF storage = <<>>
    THEN EmptyWalletState
    ELSE [isConnected |-> storage[1].isConnected,
          activeWallet |-> storage[1].activeWallet,
          availableWallets |-> storage[1].availableWallets]

\* The connector after the module is evaluated in a browser with no item.
\*   state: internalWalletState;  connects: the connect calls in flight;
\*   last: the operation that ran last and what it answered.
NoInternalWallet ==
    [state |-> EmptyWalletState, isInitialized |-> FALSE, storage |-> <<>>,
     connects |-> {}, last |-> [op |-> "none", res |-> Null]]

initializeClientState(s) ==
    IF ~s.isInitialized
    THEN [s EXCEPT !.state = loadStateFromStorage(s.storage), !.isInitialized = TRUE]
    ELSE s

\* saveStateToStorage(internalWalletState)
SaveWalletState(s) == [s EXCEPT !.storage = saveStateToStorage(s.state)]

Answered(s, op, res) == [s EXCEPT !.last = [op |-> op, res |-> res]]

\* availableWallets.find(w => w.chainId === chainId), null for undefined.
FindWalletForChain(wallets, chainId) ==
    LET I == {i \in 1..Len(wallets) : wallets[i].chainId = chainId} IN
    IF I = {} THEN NullWallet
    ELSE wallets[CHOOSE i \in I : \A j \in I : i <= j]

\* availableWallets.find(w => w.id === walletId), null for undefined.
FindWalletById(wallets, walletId) ==
    LET I == {i \in 1..Len(wallets) : wallets[i].id = walletId} IN
    IF I = {} THEN NullWallet
    ELSE wallets[CHOOSE i \in I : \A j \in I : i <= j]

\* connect up to the fetch: without an auth token it throws.
connectStart(s, token, id) ==
    LET i == initializeClientState(s) IN
    IF ~token
    THEN Answered(i, "connect", ThrowMsg("Error", "Please login"))
    ELSE Answered([i EXCEPT !.connects = i.connects \cup
                               {[id |-> id, pc |-> "fetching", wallets |-> <<>>]}],
                  "connect", Null)

\* connect after the fetch: the wallets replace availableWallets; the modal
\* opens on them when there is no active wallet, and else the call ends.
connectResponse(s, c, answer) ==
    LET rest == s.connects \ {c} IN
    IF answer.errors
    THEN Answered([s EXCEPT !.connects = rest], "connect",
                  ThrowMsg("Error", "errors"))
    ELSE IF Len(answer.wallets) = 0
    THEN Answered([s EXCEPT !.connects = rest], "connect",
                  ThrowMsg("Error", "No internal wallets found"))
    ELSE LET u == [s EXCEPT !.state.availableWallets = answer.wallets] IN
         IF u.state.activeWallet = NullWallet
         THEN Answered([u EXCEPT !.connects = rest \cup
                           {[c EXCEPT !.pc = "selecting",
                                      !.wallets = answer.wallets]}],
                       "connect", Null)
         ELSE Answered(SaveWalletState([u EXCEPT !.state.isConnected = TRUE,
                                                 !.connects = rest]),
                       "connect", Return(<<u.state.activeWallet.address>>))

\* connect after the modal: the chosen wallet becomes active; index 0 stands
\* for the cancel button.
connectSelected(s, c, index) ==
    LET rest == s.connects \ {c} IN
    IF index = 0
    THEN Answered([s EXCEPT !.connects = rest], "connect",
                  ThrowMsg("Error", "Wallet selection cancelled"))
    ELSE Answered(SaveWalletState([s EXCEPT !.state.activeWallet = c.wallets[index],
                                            !.state.isConnected = TRUE,
                                            !.connects = rest]),
                  "connect", Return(<<c.wallets[index].address>>))

disconnect(s) ==
    Answered(SaveWalletState([s EXCEPT !.state = EmptyWalletState]),
             "disconnect", Null)

getAccounts(s) ==
    LET i == initializeClientState(s) IN
    Answered(i, "getAccounts",
             Return(IF i.state.activeWallet # NullWallet
                    THEN <<i.state.activeWallet.address>> ELSE <<>>))

isAuthorized(s, token) ==
    LET i == initializeClientState(s) IN
    IF ~token THEN Answered(i, "isAuthorized", Return(FALSE))
    ELSE IF i.state.activeWallet # NullWallet
    THEN Answered(SaveWalletState([i EXCEPT !.state.isConnected = TRUE]),
                  "isAuthorized", Return(TRUE))
    ELSE Answered(i, "isAuthorized", Return(FALSE))

switchChain(s, chainId) ==
    LET walletForChain == FindWalletForChain(s.state.availableWallets, chainId) IN
    IF getChainById(chainId) = {}
    THEN Answered(s, "switchChain", ThrowMsg("Error", "Unsupported chain"))
    ELSE IF walletForChain = NullWallet
    THEN Answered(s, "switchChain", ThrowMsg("Error", "No wallet found"))
    ELSE Answered(SaveWalletState([s EXCEPT !.state.activeWallet = walletForChain]),
                  "switchChain", Return(chainId))

selectWallet(s, walletId) ==
    LET i == initializeClientState(s)
        wallet == FindWalletById(i.state.availableWallets, walletId) IN
    IF wallet # NullWallet
    THEN Answered(SaveWalletState([i EXCEPT !.state.activeWallet = wallet,
                                            !.state.isConnected = TRUE]),
                  "selectWallet", Null)
    ELSE Answered(i, "selectWallet", Null)

addWallet(s, wallet) ==
    LET i == initializeClientState(s)
        exists == \E k \in 1..Len(i.state.availableWallets) :
                     i.state.availableWallets[k].id = wallet.id IN
    IF ~exists
    THEN Answered(SaveWalletState([i EXCEPT !.state.availableWallets =
                                      Append(i.state.availableWallets, wallet)]),
                  "addWallet", Null)
    ELSE Answered(i, "addWallet", Null)

\* removeWallet that leaves the connection flag alone.
removeWalletKeepsConnected(s, walletId) ==
    LET i == initializeClientState(s)
        f == [i EXCEPT !.state.availableWallets =
                 SelectSeq(i.state.availableWallets, LAMBDA w : w.id # walletId)] IN
    Answered(SaveWalletState(
                 IF f.state.activeWallet.id = walletId
                 THEN [f EXCEPT !.state.activeWallet = NullWallet]
                 ELSE f),
             "removeWallet", Null)

removeWallet(s, walletId) ==
    LET i == initializeClientState(s)
        f == [i EXCEPT !.state.availableWallets =
                 SelectSeq(i.state.availableWallets, LAMBDA w : w.id # walletId)] IN
    Answered(SaveWalletState(
                 IF f.state.activeWallet # NullWallet /\ f.state.activeWallet.id = walletId
                 THEN [f EXCEPT !.state.activeWallet = NullWallet,
                                !.state.isConnected = FALSE]
                 ELSE f),
             "removeWallet", Null)

switchToChain(s, chainId) ==
    LET i == initializeClientState(s)
        walletForChain == FindWalletForChain(i.state.availableWallets, chainId) IN
    IF walletForChain # NullWallet
    THEN Answered(SaveWalletState([i EXCEPT !.state.activeWallet = walletForChain]),
                  "switchToChain", Return(TRUE))
    ELSE Answered(i, "switchToChain", Return(FALSE))

\* ---------------------------------------- the swap interfaces: quotes

NoAttempt ==
    [pc |-> "idle", currentStep |-> "idle", isSwapping |-> FALSE,
     fromToken |-> Undefined, toToken |-> Undefined, n |-> 0,
     writes |-> <<>>, failed |-> {}, pending |-> Null,
     showConfirmationModal |-> FALSE, preparing |-> 0, approvals |-> {}]

\* isWrapOperation / isUnwrapOperation of SwapInterface.tsx (KalyChain only).
SwapInterfaceIsWrap(fromToken, toToken) ==
    /\ fromToken.isNative = TRUE
    /\ \/ toUpperCase(toToken.symbol) = "WKLC"
       \/ toLowerCase(toToken.address) = toLowerCase(WKLC_ADDRESS)

SwapInterfaceIsUnwrap(fromToken, toToken) ==
    /\ \/ toUpperCase(fromToken.symbol) = "WKLC"
       \/ toLowerCase(fromToken.address) = toLowerCase(WKLC_ADDRESS)
    /\ toToken.isNative = TRUE

Interfaces == {"SwapInterface", "MultichainSwapInterface"}

\* The tokens selected in the form while quotes are explored.
FormFromToken == TokenA
FormToToken == TokenC

\* A quote request whose answer has not arrived yet.
Pending == [kind |-> "pending", code |-> "", msg |-> "", value |-> <<>>]

\* A quote request: its number in issue order and the amount it captured.
QuoteRequest(id, amount) == [id |-> id, amount |-> amount]

\* The quote state of a component before any input.  `issued` counts the
\* requests sent; `latestResult` records the answer to the latest of them.
NoQuoting ==
    [fromAmount |-> "", toAmount |-> "", quote |-> Null, isLoadingQuote |-> FALSE,
     timer |-> FALSE, inflight |-> {}, issued |-> 0, latestAmount |-> "",
     latestResult |-> Null, quotedAmount |-> ""]

\* dexGetQuote of MultichainSwapInterface: the active adapter's getQuote.
dexGetQuote(d, ps, fromToken, toToken, fromAmount, env) ==
    getQuote(d, ps, fromToken, toToken, fromAmount, env)

\* SwapInterface.getQuote: the output amount as a string, or null.
SwapInterfaceGetQuoteTry(ps, inputAmount, fromToken, toToken, env) ==
    IF SwapInterfaceIsWrap(fromToken, toToken) \/ SwapInterfaceIsUnwrap(fromToken, toToken)
    THEN Return(inputAmount)
    ELSE
    LET amountIn == parseUnits(inputAmount, fromToken.decimals)
        direct == getAmountsOut("KalySwap", ps, amountIn,
                                <<fromToken.address, toToken.address>>, env)
        path == IF fromToken.isNative THEN <<WKLC_ADDRESS, toToken.address>>
                ELSE IF toToken.isNative THEN <<fromToken.address, WKLC_ADDRESS>>
                ELSE <<fromToken.address, WKLC_ADDRESS, toToken.address>>
        amounts == getAmountsOut("KalySwap", ps, amountIn, path, env)
    IN IF ~fromToken.isNative /\ ~toToken.isNative /\ direct.kind = "return"
       THEN Return(formatUnits(direct.value[Len(direct.value)], toToken.decimals))
       ELSE IF amounts.kind = "return"
       THEN Return(formatUnits(amounts.value[Len(amounts.value)], toToken.decimals))
       ELSE amounts

SwapInterfaceGetQuote(ps, inputAmount, fromToken, toToken, env) ==
    IF env = "noClient" \/ inputAmount = "" THEN Null
    ELSE LET r == SwapInterfaceGetQuoteTry(ps, inputAmount, fromToken, toToken, env)
         IN IF r.kind = "throw" THEN Null ELSE r

\* The answer a component gets to a quote request.
QuoteAnswer(i, d, ps, amount, env) ==
    IF i = "SwapInterface"
    THEN SwapInterfaceGetQuote(ps, amount, FormFromToken, FormToToken, env)
    ELSE dexGetQuote(d, ps, FormFromToken, FormToToken, amount, env)

\* What a component displays once an answer is in: the quote it keeps
\* (MultichainSwapInterface only) and the toAmount of the form.
QuoteShown(i, r) == IF i = "SwapInterface" \/ r.kind # "return" THEN Null ELSE r

ToAmountShown(i, r) ==
    IF r.kind # "return" THEN ""
    ELSE IF i = "SwapInterface" THEN r.value ELSE r.value.amountOut

\* The code after the await of a quote request: the answer goes to the state.
ApplyAnswer(q, i, req, r) ==
    [q EXCEPT !.quote = QuoteShown(i, r), !.toAmount = ToAmountShown(i, r),
              !.isLoadingQuote = FALSE, !.inflight = q.inflight \ {req},
              !.quotedAmount = IF QuoteShown(i, r) = Null THEN "" ELSE req.amount,
              !.latestResult = IF req.id = q.issued THEN r ELSE q.latestResult]

\* A request for the form's amount leaves the component.
SendRequest(q, amount) ==
    [q EXCEPT !.inflight = q.inflight \cup {QuoteRequest(q.issued + 1, amount)},
              !.issued = q.issued + 1, !.latestAmount = amount,
              !.latestResult = Pending]

\* ------------------------------------ the swap interfaces: swap attempts

\* The token pairs the user swaps: wrap, unwrap, native in, native out, tokens.
AttemptPairs(d) ==
    LET native == ConfigTokens(d)[1]
        wrapped == ConfigTokens(d)[2]
    IN {<<native, wrapped>>, <<wrapped, native>>, <<native, TokenA>>,
        <<TokenA, native>>, <<TokenA, TokenC>>}

\* A write a component handed to the wallet, tagged with the attempt it belongs to.
UiWrite(n, functionName) == [attempt |-> n, functionName |-> functionName]

\* executeContractCall: the hash of the submitted write, a rejection by the
\* wallet or the network, or (internal wallet) a dismissed password prompt,
\* which throws before anything is submitted.
ContractCallOutcomes == {"hash", "rejected", "cancelled"}

\* publicClient.waitForTransactionReceipt: a receipt (of a successful or of a
\* reverted transaction), or an RPC error.
ReceiptOutcomes == {"success", "reverted", "rpcError"}

\* Mutant: swapOperation approves for an unwrap only.
NeedsApproveForUnwrapOnly(a) == SwapInterfaceIsUnwrap(a.fromToken, a.toToken)

\* Whether swapOperation sends an approve before its main write.
NeedsApprove(a) ==
    IF SwapInterfaceIsWrap(a.fromToken, a.toToken) THEN FALSE
    ELSE IF SwapInterfaceIsUnwrap(a.fromToken, a.toToken) THEN TRUE
    ELSE a.fromToken.isNative # TRUE

\* The main write of swapOperation.
SwapFunction(a) ==
    IF SwapInterfaceIsWrap(a.fromToken, a.toToken) THEN "deposit"
    ELSE IF SwapInterfaceIsUnwrap(a.fromToken, a.toToken) THEN "withdraw"
    ELSE IF a.fromToken.isNative = TRUE THEN "swapExactKLCForTokens"
    ELSE IF a.toToken.isNative = TRUE THEN "swapExactTokensForKLC"
    ELSE "swapExactTokensForTokens"

\* The approve of swapOperation: the token contract it is sent to and the
\* spender it names (the wrapped token itself for an unwrap, else the router).
Approval(a) ==
    IF SwapInterfaceIsUnwrap(a.fromToken, a.toToken)
    THEN [attempt |-> a.n, token |-> WKLC_ADDRESS, spender |-> WKLC_ADDRESS]
    ELSE [attempt |-> a.n, token |-> a.fromToken.address,
          spender |-> RouterAddress("KalySwap")]

\* The catch and finally blocks of SwapInterface.executeSwap.
ExecuteSwapCatch(a) ==
    [a EXCEPT !.currentStep = "idle", !.isSwapping = FALSE, !.pc = "idle",
              !.failed = a.failed \cup {a.n}]

\* executeWithErrorHandling(swapOperation, ...) for an operation that threw:
\* the hook records the error and hands it on to executeSwap; it does not run
\* the operation a second time.
executeWithErrorHandling(a) == ExecuteSwapCatch(a)

\* One executeContractCall of swapOperation and what follows its outcome.
ContractCall(a, functionName, outcome, pcNext) ==
    LET sent == IF outcome = "cancelled" THEN a
                ELSE [a EXCEPT !.writes = Append(a.writes, UiWrite(a.n, functionName))]
    IN IF outcome = "hash" THEN [sent EXCEPT !.pc = pcNext]
       ELSE executeWithErrorHandling(sent)

\* dexExecuteSwap of MultichainSwapInterface: the active adapter's executeSwap
\* with the connected wallet client.
dexExecuteSwap(d, ps, params, wallet) == executeSwap(d, ps, params, wallet, "ok")

\* quote.route of the quote the form shows: the 1:1 quote's route for a wrap
\* or unwrap, else the direct route.
QuotedRoute(d, tokenIn, tokenOut) ==
    IF isWrapOperation(d, tokenIn, tokenOut) \/ isUnwrapOperation(d, tokenIn, tokenOut)
    THEN <<tokenIn.address, tokenOut.address>>
    ELSE <<IF tokenIn.isNative THEN getWethAddress(d) ELSE tokenIn.address,
           IF tokenOut.isNative THEN getWethAddress(d) ELSE tokenOut.address>>

\* The writes of an adapter call, tagged with the attempt.
TaggedWrites(n, writes) == [i \in 1..Len(writes) |-> UiWrite(n, writes[i].functionName)]

\* Mutant: the catch block submits the attempt's last write once more.
HandleSwapCatchResubmits(a) ==
    [a EXCEPT !.currentStep = "idle", !.isSwapping = FALSE, !.pc = "idle",
              !.failed = a.failed \cup {a.n},
              !.writes = IF a.writes = <<>> THEN a.writes
                         ELSE Append(a.writes, a.writes[Len(a.writes)])]

\* The catch and finally blocks of MultichainSwapInterface.handleSwap.
HandleSwapCatch(a) ==
    [a EXCEPT !.currentStep = "idle", !.isSwapping = FALSE, !.pc = "idle",
              !.failed = a.failed \cup {a.n}]

\* The conjuncts of MultichainSwapInterface's canSwap that read the form and
\* the quote, for a connected wallet and tokens of the current chain.
canSwapForm(q) ==
    /\ q.fromAmount # ""
    /\ parseFloat(q.fromAmount).n > 0
    /\ q.quote # Null
    /\ ~q.isLoadingQuote

\* Mutant: canSwap without its isSwapping conjunct.
canSwapIgnoresSwapping(a) == TRUE

\* canSwap of MultichainSwapInterface, the negation of the swap button's
\* disabled prop, for a connected wallet and a quoted form.
canSwap(a) == ~a.isSwapping

\* The disabled prop of SwapInterface's swap button for a connected wallet
\* and a filled form.
SwapButtonDisabled(a) == a.isSwapping

\* SwapConfirmationModal with isLoading = isSwapping: the confirm button is
\* disabled while a swap is in progress.
ConfirmDisabled(a) == a.isSwapping

\* ------------------------------------------------------------ actions

uiVars == <<iface, quoting, attempt>>

\* The state of the adapters and of the swap interfaces.
coreVars == <<dex, pairs, call, swap, iface, quoting, attempt>>

\* The state of the hooks and services beside them.
svcVars == <<chart, tokenLists, retry, internalWallet>>

Idle == [op |-> "idle", tokenIn |-> Undefined, tokenOut |-> Undefined,
         amountIn |-> "", env |-> "ok", res |-> Null]

GetSwapRoute ==
    /\ call.op = "idle"
    /\ \E tokenIn \in InputTokens(dex), tokenOut \in InputTokens(dex),
          env \in {"ok", "rpcDown", "noClient"} :
          call' = [op |-> "getSwapRoute", tokenIn |-> tokenIn, tokenOut |-> tokenOut,
                   amountIn |-> "", env |-> env,
                   res |-> Return(getSwapRoute(dex, pairs, tokenIn, tokenOut, env))]
    /\ UNCHANGED <<dex, pairs, swap, uiVars, svcVars>>

GetQuote ==
    /\ call.op = "idle"
    /\ \E tokenIn \in InputTokens(dex), tokenOut \in InputTokens(dex),
          amountIn \in AmountStrings, env \in Envs :
          call' = [op |-> "getQuote", tokenIn |-> tokenIn, tokenOut |-> tokenOut,
                   amountIn |-> amountIn, env |-> env,
                   res |-> getQuote(dex, pairs, tokenIn, tokenOut, amountIn, env)]
    /\ UNCHANGED <<dex, pairs, swap, uiVars, svcVars>>

GetPairAddress ==
    /\ call.op = "idle"
    /\ \E tokenA \in InputTokens(dex), tokenB \in InputTokens(dex),
          env \in {"ok", "rpcDown", "noClient"} :
          call' = [op |-> "getPairAddress", tokenIn |-> tokenA, tokenOut |-> tokenB,
                   amountIn |-> "", env |-> env,
                   res |-> getPairAddress(dex, pairs, tokenA, tokenB, env)]
    /\ UNCHANGED <<dex, pairs, swap, uiVars, svcVars>>

GetPairInfo ==
    /\ call.op = "idle"
    /\ \E tokenA \in InputTokens(dex), tokenB \in InputTokens(dex),
          env \in {"ok", "rpcDown", "pairFail", "noClient"} :
          call' = [op |-> "getPairInfo", tokenIn |-> tokenA, tokenOut |-> tokenB,
                   amountIn |-> "", env |-> env,
                   res |-> getPairInfo(dex, pairs, tokenA, tokenB, env)]
    /\ UNCHANGED <<dex, pairs, swap, uiVars, svcVars>>

\* The amounts price impact is computed for: each amount and its double.
ImpactAmounts == {"1", "1.5", "2", "3"}

CalculatePriceImpact ==
    /\ call.op = "idle"
    /\ \E tokenIn \in InputTokens(dex), tokenOut \in InputTokens(dex),
          amountIn \in ImpactAmounts, env \in {"ok", "rpcDown", "pairFail", "noClient"} :
          call' = [op |-> "calculatePriceImpact", tokenIn |-> tokenIn, tokenOut |-> tokenOut,
                   amountIn |-> amountIn, env |-> env,
                   res |-> Return(calculatePriceImpact(dex, pairs, tokenIn, tokenOut,
                                                       amountIn, env))]
    /\ UNCHANGED <<dex, pairs, swap, uiVars, svcVars>>

\* The two hooks render with a token pair (either token may be absent): the
\* outcome holds the normalized pair of usePairMarketStats and that of
\* useHistoricalPriceData.
NormalizeTokens ==
    /\ call.op = "idle"
    /\ \E tokenA \in InputTokens(dex) \cup {Undefined},
          tokenB \in InputTokens(dex) \cup {Undefined} :
          call' = [op |-> "normalizedTokens", tokenIn |-> tokenA, tokenOut |-> tokenB,
                   amountIn |-> "", env |-> "ok",
                   res |-> Return(<<normalizedTokens(tokenA, tokenB),
                                    historicalNormalizedTokens(tokenA, tokenB)>>)]
    /\ UNCHANGED <<dex, pairs, swap, uiVars, svcVars>>

\* The caller takes the outcome; the adapter is ready for the next call.
Done ==
    /\ call.op # "idle"
    /\ call' = Idle
    /\ UNCHANGED <<dex, pairs, swap, uiVars, svcVars>>

vars == <<dex, pairs, call, swap, iface, quoting, attempt, chart, tokenLists, retry, internalWallet>>

\* factory.createPair: somebody creates a pool between two calls.
CreatePairUpTo(max) ==
    /\ call.op = "idle"
    /\ swap.op = "idle"
    /\ Cardinality(pairs) < max
    /\ \E p \in AllPairs(dex) \ pairs : pairs' = pairs \cup {p}
    /\ UNCHANGED <<dex, call, swap, uiVars, svcVars>>

CreatePair == CreatePairUpTo(MaxPairs)

CreateSwapPair == CreatePairUpTo(MaxSwapPairs)

SwapIdle == [op |-> "idle", params |-> SwapParams(Undefined, Undefined, "", "", "", "", <<>>),
             wallet |-> "ok", env |-> "ok", writes |-> <<>>, res |-> Null]

\* The routes a caller passes in params.route: none, the empty route, or the
\* route of a quote (the direct path, or one over the wrapped-native token).
ParamRoutes(d, tokenIn, tokenOut) ==
    LET addressIn == IF tokenIn.isNative THEN getWethAddress(d) ELSE tokenIn.address
        addressOut == IF tokenOut.isNative THEN getWethAddress(d) ELSE tokenOut.address
    IN {<<>>, <<<<>>>>, <<<<addressIn, addressOut>>>>}

ExecuteSwap ==
    /\ swap.op = "idle"
    /\ call.op = "idle"
    /\ \E tokenIn \in InputTokens(dex), tokenOut \in InputTokens(dex),
          amountIn \in AmountStrings, wallet \in WalletStates, env \in {"ok", "rpcDown"} :
       \E route \in ParamRoutes(dex, tokenIn, tokenOut) :
          LET params == SwapParams(tokenIn, tokenOut, amountIn, "1", "0xUser", "20", route)
              r == executeSwap(dex, pairs, params, wallet, env)
          IN /\ route # <<>> => env = "ok"
             /\ swap' = [op |-> "executeSwap", params |-> params, wallet |-> wallet,
                         env |-> env, writes |-> r.writes, res |-> r.res]
    /\ UNCHANGED <<dex, pairs, call, uiVars, svcVars>>

\* A custom token as the token selector builds it: the symbol is what the
\* contract at the address answers, here the wrapped-native token's symbol.
CustomToken(d) == Token(AdapterWrappedSymbol(d), TokenA.address, FALSE, TokenA.decimals)

\* The Token values of the lists together with the custom token.
SelectableTokens(d) == InputTokens(d) \cup {CustomToken(d)}

\* getQuote for the selectable tokens, the custom token among them.
GetQuoteSelected ==
    /\ call.op = "idle"
    /\ swap.op = "idle"
    /\ \E tokenIn \in SelectableTokens(dex), tokenOut \in SelectableTokens(dex),
          amountIn \in AmountStrings :
          call' = [op |-> "getQuote", tokenIn |-> tokenIn, tokenOut |-> tokenOut,
                   amountIn |-> amountIn, env |-> "ok",
                   res |-> getQuote(dex, pairs, tokenIn, tokenOut, amountIn, "ok")]
    /\ UNCHANGED <<dex, pairs, swap, uiVars, svcVars>>

\* executeSwap for the selectable tokens, over the route the adapter plans.
ExecuteSwapSelected ==
    /\ swap.op = "idle"
    /\ call.op = "idle"
    /\ \E tokenIn \in SelectableTokens(dex), tokenOut \in SelectableTokens(dex),
          amountIn \in AmountStrings, wallet \in {"ok", "rejected"} :
          LET params == SwapParams(tokenIn, tokenOut, amountIn, "1", "0xUser", "20", <<>>)
              r == executeSwap(dex, pairs, params, wallet, "ok")
          IN swap' = [op |-> "executeSwap", params |-> params, wallet |-> wallet,
                      env |-> "ok", writes |-> r.writes, res |-> r.res]
    /\ UNCHANGED <<dex, pairs, call, uiVars, svcVars>>

\* The caller takes the hash or the error.
SwapDone ==
    /\ swap.op # "idle"
    /\ swap' = SwapIdle
    /\ UNCHANGED <<dex, pairs, call, uiVars, svcVars>>


\* The user opens a page: SwapInterface (KalyChain only) or
\* MultichainSwapInterface.  The quote effect of the latter runs on mount.
Mount ==
    /\ iface = "none"
    /\ \E i \in Interfaces :
          /\ i = "SwapInterface" => dex = "KalySwap"
          /\ iface' = i
          /\ quoting' = [NoQuoting EXCEPT !.timer = (i = "MultichainSwapInterface")]
    /\ UNCHANGED <<dex, pairs, call, swap, attempt, svcVars>>

\* SwapInterface.handleFromAmountChange: the amount is stored and, when it is
\* a number, a quote request is sent at once; else toAmount is cleared.
SwapInterfaceFromAmountChange ==
    /\ iface = "SwapInterface"
    /\ \E value \in AmountStrings \cup {""} :
          /\ value # quoting.fromAmount
          /\ IF value = ""
             THEN quoting' = [quoting EXCEPT !.fromAmount = value, !.toAmount = ""]
             ELSE /\ quoting.issued < MaxRequests
                  /\ quoting' = SendRequest([quoting EXCEPT !.fromAmount = value], value)
    /\ UNCHANGED <<dex, pairs, call, swap, iface, attempt, svcVars>>

\* MultichainSwapInterface.handleFromAmountChange and the re-run of the quote
\* effect: the pending debounce timer is cleared and a new one is set.
MultichainFromAmountChange ==
    /\ iface = "MultichainSwapInterface"
    /\ \E value \in AmountStrings \cup {""} :
          /\ value # quoting.fromAmount
          /\ quoting' = [quoting EXCEPT !.fromAmount = value, !.timer = TRUE]
    /\ UNCHANGED <<dex, pairs, call, swap, iface, attempt, svcVars>>

\* The debounce timer fires: getQuote of the quote effect runs up to its await.
MultichainQuoteTimer ==
    /\ iface = "MultichainSwapInterface"
    /\ quoting.timer
    /\ IF quoting.fromAmount = ""
       THEN quoting' = [quoting EXCEPT !.timer = FALSE, !.quote = Null,
                                       !.quotedAmount = ""]
       ELSE /\ quoting.issued < MaxRequests
            /\ quoting' = SendRequest([quoting EXCEPT !.timer = FALSE,
                                                      !.isLoadingQuote = TRUE],
                                      quoting.fromAmount)
    /\ UNCHANGED <<dex, pairs, call, swap, iface, attempt, svcVars>>

\* The answer to one of the requests in flight arrives, in any order.
QuoteResponse ==
    /\ iface # "none"
    /\ \E req \in quoting.inflight, env \in {"ok", "rpcDown"} :
          quoting' = ApplyAnswer(quoting, iface, req,
                                 QuoteAnswer(iface, dex, pairs, req.amount, env))
    /\ UNCHANGED <<dex, pairs, call, swap, iface, attempt, svcVars>>

\* SwapInterface.handleSwapClick up to its awaits: the user clicked the swap
\* button, and the price impact and the gas estimate are being read.
SwapInterfaceSwapClick ==
    /\ iface = "SwapInterface"
    /\ ~SwapButtonDisabled(attempt)
    /\ attempt.preparing < MaxPreparing
    /\ attempt' = [attempt EXCEPT !.preparing = attempt.preparing + 1]
    /\ UNCHANGED <<dex, pairs, call, swap, iface, quoting, svcVars>>

\* The rest of a handleSwapClick: the reads answered and the confirmation
\* modal is shown, or they failed and the error is displayed.
SwapInterfaceShowConfirmation ==
    /\ iface = "SwapInterface"
    /\ attempt.preparing > 0
    /\ \E answered \in BOOLEAN :
          attempt' = [attempt EXCEPT
                         !.preparing = attempt.preparing - 1,
                         !.showConfirmationModal = answered \/ attempt.showConfirmationModal]
    /\ UNCHANGED <<dex, pairs, call, swap, iface, quoting, svcVars>>

\* onClose of the confirmation modal: the user dismissed it.
SwapInterfaceCloseConfirmation ==
    /\ iface = "SwapInterface"
    /\ attempt.showConfirmationModal
    /\ attempt' = [attempt EXCEPT !.showConfirmationModal = FALSE]
    /\ UNCHANGED <<dex, pairs, call, swap, iface, quoting, svcVars>>

\* SwapInterface.executeSwap up to the first await of swapOperation: the user
\* confirmed the swap in the confirmation modal.
SwapInterfaceExecuteSwap ==
    /\ iface = "SwapInterface"
    /\ attempt.showConfirmationModal
    /\ ~ConfirmDisabled(attempt)
    /\ attempt.n < MaxAttempts
    /\ \E tokens \in AttemptPairs("KalySwap") :
          attempt' = [attempt EXCEPT !.n = attempt.n + 1, !.isSwapping = TRUE,
                                     !.currentStep = "approving", !.pc = "started",
                                     !.showConfirmationModal = FALSE,
                                     !.fromToken = tokens[1], !.toToken = tokens[2]]
    /\ UNCHANGED <<dex, pairs, call, swap, iface, quoting, svcVars>>

\* The approve of swapOperation: for an unwrap the step is 'swapping' already.
SwapInterfaceApprove ==
    /\ iface = "SwapInterface"
    /\ attempt.pc = "started"
    /\ NeedsApprove(attempt)
    /\ \E outcome \in ContractCallOutcomes :
          LET a == ContractCall(
                       IF SwapInterfaceIsUnwrap(attempt.fromToken, attempt.toToken)
                       THEN [attempt EXCEPT !.currentStep = "swapping"] ELSE attempt,
                       "approve", outcome, "approveSent")
          IN attempt' = IF outcome = "hash"
                        THEN [a EXCEPT !.approvals = a.approvals \cup {Approval(attempt)}]
                        ELSE a
    /\ UNCHANGED <<dex, pairs, call, swap, iface, quoting, svcVars>>

\* waitForTransactionReceipt of the approve.
SwapInterfaceApproveReceipt ==
    /\ iface = "SwapInterface"
    /\ attempt.pc = "approveSent"
    /\ \E outcome \in ReceiptOutcomes :
          attempt' = IF outcome = "rpcError" THEN executeWithErrorHandling(attempt)
                     ELSE [attempt EXCEPT !.pc = "approved"]
    /\ UNCHANGED <<dex, pairs, call, swap, iface, quoting, svcVars>>

\* The main write of swapOperation: deposit, withdraw or the router swap.
SwapInterfaceSwap ==
    /\ iface = "SwapInterface"
    /\ \/ attempt.pc = "approved"
       \/ attempt.pc = "started" /\ ~NeedsApprove(attempt)
    /\ \E outcome \in ContractCallOutcomes :
          attempt' = ContractCall([attempt EXCEPT !.currentStep = "swapping"],
                                  SwapFunction(attempt), outcome, "swapSent")
    /\ UNCHANGED <<dex, pairs, call, swap, iface, quoting, svcVars>>

\* waitForTransactionReceipt of the main write and the end of swapOperation.
SwapInterfaceSwapReceipt ==
    /\ iface = "SwapInterface"
    /\ attempt.pc = "swapSent"
    /\ \E outcome \in ReceiptOutcomes :
          attempt' = IF outcome = "rpcError" THEN executeWithErrorHandling(attempt)
                     ELSE [attempt EXCEPT !.currentStep = "complete",
                                          !.isSwapping = FALSE, !.pc = "idle"]
    /\ UNCHANGED <<dex, pairs, call, swap, iface, quoting, svcVars>>

\* MultichainSwapInterface.handleSwap up to its await of dexExecuteSwap.
MultichainHandleSwap ==
    /\ iface = "MultichainSwapInterface"
    /\ canSwap(attempt)
    /\ attempt.n < MaxAttempts
    /\ \E tokens \in AttemptPairs(dex), wallet \in WalletStates :
          LET route == QuotedRoute(dex, tokens[1], tokens[2])
              params == SwapParams(tokens[1], tokens[2], "1", "1", "0xUser", "20",
                                   <<route>>)
              r == dexExecuteSwap(dex, pairs, params, wallet)
          IN attempt' = [attempt EXCEPT
                 !.n = attempt.n + 1, !.isSwapping = TRUE, !.currentStep = "swapping",
                 !.pc = "executing", !.fromToken = tokens[1], !.toToken = tokens[2],
                 !.writes = attempt.writes \o TaggedWrites(attempt.n + 1, r.writes),
                 !.pending = r.res]
    /\ UNCHANGED <<dex, pairs, call, swap, iface, quoting, svcVars>>

\* dexExecuteSwap settled: the rest of handleSwap's try block, or its catch.
MultichainSwapSettled ==
    /\ iface = "MultichainSwapInterface"
    /\ attempt.pc = "executing"
    /\ attempt' = IF attempt.pending.kind = "return"
                  THEN [attempt EXCEPT !.currentStep = "complete", !.isSwapping = FALSE,
                                       !.pc = "idle", !.pending = Null]
                  ELSE [HandleSwapCatch(attempt) EXCEPT !.pending = Null]
    /\ UNCHANGED <<dex, pairs, call, swap, iface, quoting, svcVars>>

\* The hook's first render and effect: fetchHistoricalData runs.
ChartMount ==
    /\ ~chart.mounted
    /\ \E deps \in ChartDeps :
          chart' = fetchHistoricalData([chart EXCEPT !.mounted = TRUE], dex, deps)
    /\ UNCHANGED <<coreVars, tokenLists, retry, internalWallet>>

\* The tokens or the pair address change: the effect's cleanup sets the cancel
\* flag that cancelFetchRef holds, and the effect runs fetchHistoricalData.
ChartDepsChange ==
    /\ chart.mounted
    /\ chart.issued < MaxFetches
    /\ \E deps \in ChartDeps \ {chart.deps} :
          chart' = fetchHistoricalData(
                       [chart EXCEPT !.cancelled = chart.cancelled \cup {chart.ref}],
                       dex, deps)
    /\ UNCHANGED <<coreVars, tokenLists, retry, internalWallet>>

\* refetch of the hook's result (the chart's retry and refresh buttons):
\* fetchHistoricalData runs without the effect's cleanup.
ChartRefetch ==
    /\ chart.mounted
    /\ chart.issued < MaxFetches
    /\ chart' = fetchHistoricalData(chart, dex, chart.deps)
    /\ UNCHANGED <<coreVars, tokenLists, retry, internalWallet>>

\* The awaited requests of a fetch in flight settle and the fetch runs to its end.
ChartFetchSettles ==
    /\ \E f \in chart.inflight, outcome \in FetchOutcomes :
          LET c == [chart EXCEPT !.inflight = chart.inflight \ {f}]
          IN chart' = IF isGeckoTerminalSupported(dex)
                      THEN GeckoTerminalCommit(c, f, outcome)
                      ELSE SubgraphCommit(c, f, outcome)
    /\ UNCHANGED <<coreVars, tokenLists, retry, internalWallet>>

\* fetchTokenList(url) up to its await: a fresh cache entry is returned, else
\* the request leaves.
FetchTokenList ==
    /\ \E url \in ListUrls :
          IF CacheHit(tokenLists, url)
          THEN tokenLists' = [tokenLists EXCEPT
                   !.last = [url |-> url, res |-> Return(tokenLists.cache[url].data)]]
          ELSE /\ tokenLists.issued < MaxListRequests
               /\ tokenLists' = [tokenLists EXCEPT
                      !.issued = tokenLists.issued + 1,
                      !.inflight = tokenLists.inflight
                                     \cup {[id |-> tokenLists.issued + 1, url |-> url]}]
    /\ UNCHANGED <<coreVars, chart, retry, internalWallet>>

\* fetchJSON settles: with a document, or with a failure.
TokenListResponse ==
    /\ \E req \in tokenLists.inflight, answer \in ListDocuments \cup {Null} :
          tokenLists' = fetchTokenListSettles(tokenLists, req, answer)
    /\ UNCHANGED <<coreVars, chart, retry, internalWallet>>

\* clearCache(url)
ClearCacheUrl ==
    /\ \E url \in ListUrls :
          tokenLists' = [tokenLists EXCEPT !.cache[url] = NoEntry]
    /\ UNCHANGED <<coreVars, chart, retry, internalWallet>>

\* clearCache()
ClearCacheAll ==
    /\ tokenLists' = [tokenLists EXCEPT !.cache = [u \in ListUrls |-> NoEntry]]
    /\ UNCHANGED <<coreVars, chart, retry, internalWallet>>

\* Date.now() advances.
ClockTick ==
    /\ tokenLists.now < MaxClock
    /\ tokenLists' = [tokenLists EXCEPT !.now = tokenLists.now + 1]
    /\ UNCHANGED <<coreVars, chart, retry, internalWallet>>

\* requestWithRetry(query, variables, retries) is called.
RequestWithRetry ==
    /\ retry.pc = "idle"
    /\ \E retries \in RetriesArgs :
          retry' = RetryLoopHead([NoRetry EXCEPT !.retries = retries])
    /\ UNCHANGED <<coreVars, chart, tokenLists, internalWallet>>

\* graphqlClient.request settles.
RetryRequestAnswered ==
    /\ retry.pc = "requesting"
    /\ \E answer \in RequestAnswers :
          retry' = RetryRequestSettles(retry, answer)
    /\ UNCHANGED <<coreVars, chart, tokenLists, internalWallet>>

\* The timer fires: attempt++ and the loop goes round.
RetryTimerFires ==
    /\ retry.pc = "waiting"
    /\ retry' = RetryLoopHead([retry EXCEPT !.attempt = retry.attempt + 1])
    /\ UNCHANGED <<coreVars, chart, tokenLists, internalWallet>>

\* The caller takes the outcome.
RetryDone ==
    /\ retry.pc \in {"returned", "threw"}
    /\ retry' = NoRetry
    /\ UNCHANGED <<coreVars, chart, tokenLists, internalWallet>>

otherSvc == <<chart, tokenLists, retry>>

\* internalWalletConnector.connect is called.
WalletConnect ==
    /\ Cardinality(internalWallet.connects) < MaxConnects
    /\ \E token \in BOOLEAN :
          internalWallet' =
              connectStart(internalWallet, token,
                  CHOOSE id \in 1..MaxConnects :
                      /\ \A c \in internalWallet.connects : c.id # id
                      /\ \A j \in 1..(id - 1) :
                            \E c \in internalWallet.connects : c.id = j)
    /\ UNCHANGED <<coreVars, otherSvc>>

\* The Me query of a connect settles.
WalletConnectResponse ==
    /\ \E c \in internalWallet.connects, answer \in ServerAnswers :
          /\ c.pc = "fetching"
          /\ internalWallet' = connectResponse(internalWallet, c, answer)
    /\ UNCHANGED <<coreVars, otherSvc>>

\* The user picks a wallet in the selection modal of a connect, or cancels.
WalletSelected ==
    /\ \E c \in internalWallet.connects :
          /\ c.pc = "selecting"
          /\ \E index \in 0..Len(c.wallets) :
                internalWallet' = connectSelected(internalWallet, c, index)
    /\ UNCHANGED <<coreVars, otherSvc>>

WalletDisconnect ==
    /\ internalWallet' = disconnect(internalWallet)
    /\ UNCHANGED <<coreVars, otherSvc>>

WalletGetAccounts ==
    /\ internalWallet' = getAccounts(internalWallet)
    /\ UNCHANGED <<coreVars, otherSvc>>

WalletIsAuthorized ==
    /\ \E token \in BOOLEAN : internalWallet' = isAuthorized(internalWallet, token)
    /\ UNCHANGED <<coreVars, otherSvc>>

WalletSwitchChain ==
    /\ \E chainId \in ChainIdArgs : internalWallet' = switchChain(internalWallet, chainId)
    /\ UNCHANGED <<coreVars, otherSvc>>

WalletSelectWallet ==
    /\ \E walletId \in WalletIds : internalWallet' = selectWallet(internalWallet, walletId)
    /\ UNCHANGED <<coreVars, otherSvc>>

WalletAddWallet ==
    /\ \E wallet \in Wallets : internalWallet' = addWallet(internalWallet, wallet)
    /\ UNCHANGED <<coreVars, otherSvc>>

WalletRemoveWallet ==
    /\ \E walletId \in WalletIds : internalWallet' = removeWallet(internalWallet, walletId)
    /\ UNCHANGED <<coreVars, otherSvc>>

WalletSwitchToChain ==
    /\ \E chainId \in ChainIdArgs : internalWallet' = switchToChain(internalWallet, chainId)
    /\ UNCHANGED <<coreVars, otherSvc>>

\* The page is loaded again: the module starts over, the item stays.
WalletPageLoad ==
    /\ internalWallet' = [NoInternalWallet EXCEPT !.storage = internalWallet.storage]
    /\ UNCHANGED <<coreVars, otherSvc>>

Init ==
    /\ dex \in DexNames
    /\ pairs = {}
    /\ call = Idle
    /\ swap = SwapIdle
    /\ iface = "none"
    /\ quoting = NoQuoting
    /\ attempt = NoAttempt
    /\ chart = NoChart
    /\ tokenLists = NoTokenLists
    /\ retry = NoRetry
    /\ internalWallet = NoInternalWallet

\* The route planner and the quote engine.
Next == CreatePair \/ GetSwapRoute \/ GetQuote \/ Done

Spec == Init /\ [][Next]_vars

\* The pair resolver.
NextPair == CreatePair \/ GetPairAddress \/ GetPairInfo \/ Done

SpecPair == Init /\ [][NextPair]_vars

\* The token-order normalization of the statistics and chart hooks.
NextNormalize == NormalizeTokens \/ Done

SpecNormalize == Init /\ [][NextNormalize]_vars

\* The historical price chart.
NextChart == ChartMount \/ ChartDepsChange \/ ChartRefetch \/ ChartFetchSettles

SpecChart == Init /\ [][NextChart]_vars

\* The token list service.
NextTokenLists ==
    FetchTokenList \/ TokenListResponse \/ ClearCacheUrl \/ ClearCacheAll \/ ClockTick

SpecTokenLists == Init /\ [][NextTokenLists]_vars

\* requestWithRetry.
NextRetry == RequestWithRetry \/ RetryRequestAnswered \/ RetryTimerFires \/ RetryDone

SpecRetry == Init /\ [][NextRetry]_vars

\* The same, where every request settles and every timer fires.
SpecRetryFair ==
    SpecRetry /\ WF_vars(RetryRequestAnswered) /\ WF_vars(RetryTimerFires)

\* The internal wallet connector.
NextWallet ==
    \/ WalletConnect \/ WalletConnectResponse \/ WalletSelected
    \/ WalletDisconnect \/ WalletGetAccounts \/ WalletIsAuthorized
    \/ WalletSwitchChain \/ WalletSelectWallet \/ WalletAddWallet
    \/ WalletRemoveWallet \/ WalletSwitchToChain \/ WalletPageLoad

SpecWallet == Init /\ [][NextWallet]_vars

\* The price impact calculator.
NextImpact == CreateSwapPair \/ CalculatePriceImpact \/ Done

SpecImpact == Init /\ [][NextImpact]_vars

\* The swap executor.
NextSwap == CreateSwapPair \/ ExecuteSwap \/ SwapDone

SpecSwap == Init /\ [][NextSwap]_vars

\* Quotes and swaps of the tokens a user can select.
NextSelected ==
    CreateSwapPair \/ GetQuoteSelected \/ ExecuteSwapSelected \/ Done \/ SwapDone

SpecSelected == Init /\ [][NextSelected]_vars

\* The quote requests of the swap interfaces.
NextQuoting ==
    \/ CreateSwapPair \/ Mount \/ SwapInterfaceFromAmountChange
    \/ MultichainFromAmountChange \/ MultichainQuoteTimer \/ QuoteResponse

SpecQuoting == Init /\ [][NextQuoting]_vars

\* The swap attempts of the swap interfaces.
NextAttempt ==
    \/ Mount \/ SwapInterfaceSwapClick \/ SwapInterfaceShowConfirmation
    \/ SwapInterfaceCloseConfirmation \/ SwapInterfaceExecuteSwap \/ SwapInterfaceApprove
    \/ SwapInterfaceApproveReceipt \/ SwapInterfaceSwap \/ SwapInterfaceSwapReceipt
    \/ MultichainHandleSwap \/ MultichainSwapSettled

SpecAttempt == Init /\ [][NextAttempt]_vars

\* ============================================================ properties

\* The address a token is routed by: the wrapped-native address for the native asset.
Resolved(d, t) == IF t.isNative THEN getWethAddress(d) ELSE t.address

\* Whether the factory holds a pair of two addresses.
PairExists(ps, a, b) == {toLowerCase(a), toLowerCase(b)} \in ps

\* The bridge tokens of each adapter as the specification lists them:
\* the wrapped-native token first, then the stablecoins in order.
ClaimedBridges(d) ==
    CASE d = "KalySwap" -> <<"0xWklc", "0xUsdt">>
      [] d = "PancakeSwap" -> <<"0xWbnb", "0xUsdt", "0xBusd">>
      [] d = "Camelot" -> <<"0xWeth", "0xUsdc", "0xUsdt">>

\* The bridges (by position) that pair with both endpoints.
ConnectingBridges(d, ps, tokenIn, tokenOut) ==
    {i \in 1..Len(ClaimedBridges(d)) :
        /\ PairExists(ps, Resolved(d, tokenIn), ClaimedBridges(d)[i])
        /\ PairExists(ps, ClaimedBridges(d)[i], Resolved(d, tokenOut))}

DirectPair(d, ps, tokenIn, tokenOut) ==
    PairExists(ps, Resolved(d, tokenIn), Resolved(d, tokenOut))

\* One token is the native asset and the other the chain's wrapped-native token.
IsNativeWrappedPair(d, tokenIn, tokenOut) ==
    \/ tokenIn.isNative /\ ~tokenOut.isNative
         /\ toLowerCase(tokenOut.address) = toLowerCase(getWethAddress(d))
    \/ tokenOut.isNative /\ ~tokenIn.isNative
         /\ toLowerCase(tokenIn.address) = toLowerCase(getWethAddress(d))

\* The route of the call's outcome: getSwapRoute's value, or a returned quote's route.
OutcomeRoute ==
    IF call.op = "getSwapRoute" THEN call.res.value ELSE call.res.value.route

RECURSIVE ClaimedStableRoute(_, _, _, _, _)
ClaimedStableRoute(d, ps, tokenIn, tokenOut, i) ==
    IF i > Len(ClaimedBridges(d)) THEN <<>>
    ELSE IF i \in ConnectingBridges(d, ps, tokenIn, tokenOut)
         THEN <<Resolved(d, tokenIn), ClaimedBridges(d)[i], Resolved(d, tokenOut)>>
         ELSE ClaimedStableRoute(d, ps, tokenIn, tokenOut, i + 1)

ClaimedRoute(d, ps, tokenIn, tokenOut) ==
    IF DirectPair(d, ps, tokenIn, tokenOut)
    THEN <<Resolved(d, tokenIn), Resolved(d, tokenOut)>>
    ELSE IF /\ toLowerCase(Resolved(d, tokenIn)) # toLowerCase(getWethAddress(d))
            /\ toLowerCase(Resolved(d, tokenOut)) # toLowerCase(getWethAddress(d))
            /\ 1 \in ConnectingBridges(d, ps, tokenIn, tokenOut)
         THEN <<Resolved(d, tokenIn), getWethAddress(d), Resolved(d, tokenOut)>>
         ELSE ClaimedStableRoute(d, ps, tokenIn, tokenOut, 2)

\* C2: getSwapRoute returns the first hit of the fixed priority order: the
\* direct route, else the route through the wrapped-native token, else the
\* first connecting stablecoin in the adapter's order, else the empty route.
C2_RoutePriority ==
    (call.op = "getSwapRoute" /\ call.env = "ok")
    => /\ call.res.kind = "return"
       /\ call.res.value = ClaimedRoute(dex, pairs, call.tokenIn, call.tokenOut)

\* Both stablecoins of the adapter connect the endpoints, the wrapped-native
\* token does not, and the route goes through the first stablecoin of the order.
C2_Witness ==
    /\ call.op = "getSwapRoute"
    /\ call.env = "ok"
    /\ ConnectingBridges(dex, pairs, call.tokenIn, call.tokenOut) = {2, 3}
    /\ ~DirectPair(dex, pairs, call.tokenIn, call.tokenOut)
    /\ call.res.value = <<Resolved(dex, call.tokenIn), ClaimedBridges(dex)[2],
                          Resolved(dex, call.tokenOut)>>

\* C3: on every adapter a quote between the native asset and its wrapped
\* token returns amountOut = amountIn, priceImpact = the number 0 and the
\* route [tokenIn.address, tokenOut.address], whatever the read interface does.
C3_WrapUnwrapExact ==
    (call.op = "getQuote" /\ IsNativeWrappedPair(dex, call.tokenIn, call.tokenOut))
    => /\ call.res.kind = "return"
       /\ call.res.value.amountOut = call.amountIn
       /\ call.res.value.priceImpact = Number(0, 1)
       /\ call.res.value.route = <<call.tokenIn.address, call.tokenOut.address>>

\* The letter-case variants of a token a caller may pass.
CaseVariants(t) == {t, LowerCased(t)}

C6_PairLookupNeverThrows ==
    (call.op \in {"getPairAddress", "getPairInfo"})
    => LET answered == FactoryGetPair(pairs, Resolved(dex, call.tokenIn),
                                      Resolved(dex, call.tokenOut))
           noPair == call.env \in {"rpcDown", "noClient"} \/ answered = ZERO_ADDRESS
       IN /\ call.res.kind # "throw"
          /\ call.op = "getPairAddress"
               => IF noPair THEN call.res.kind = "null"
                  ELSE call.res.kind = "return" /\ call.res.value = answered
          /\ call.op = "getPairInfo"
               => IF noPair \/ call.env = "pairFail" THEN call.res.kind = "null"
                  ELSE call.res.kind = "return" /\ call.res.value.pairAddress = answered

\* A pair lookup that met a failing factory read although the pair exists.
C6_Witness ==
    /\ call.op = "getPairAddress"
    /\ call.env = "rpcDown"
    /\ DirectPair(dex, pairs, call.tokenIn, call.tokenOut)
    /\ call.res.kind = "null"

\* C7: a read operation called without a public client surfaces NO_CLIENT; it
\* gives neither a no-data value nor PairNotFound.
C7_NoClientSurfaced ==
    ( /\ call.op \in {"getQuote", "getPairAddress", "getPairInfo"}
      /\ call.env = "noClient"
      /\ ~IsNativeWrappedPair(dex, call.tokenIn, call.tokenOut) )
    => call.res.kind = "throw" /\ call.res.code = "NO_CLIENT"
\* tokenIn is the native asset and tokenOut the chain's wrapped-native token.
WrapPair(d, tokenIn, tokenOut) ==
    /\ tokenIn.isNative /\ ~tokenOut.isNative
    /\ toLowerCase(tokenOut.address) = toLowerCase(getWethAddress(d))

\* tokenIn is the chain's wrapped-native token and tokenOut the native asset.
UnwrapPair(d, tokenIn, tokenOut) ==
    /\ tokenOut.isNative /\ ~tokenIn.isNative
    /\ toLowerCase(tokenIn.address) = toLowerCase(getWethAddress(d))

EmptyRouteCase ==
    /\ swap.wallet \notin {"noWallet", "noAccount"}
    /\ ~WrapPair(dex, swap.params.tokenIn, swap.params.tokenOut)
    /\ ~UnwrapPair(dex, swap.params.tokenIn, swap.params.tokenOut)
    /\ \/ swap.params.route = <<<<>>>>
       \/ /\ swap.params.route = <<>>
          /\ \/ swap.env = "rpcDown"
             \/ ClaimedRoute(dex, pairs, swap.params.tokenIn, swap.params.tokenOut) = <<>>

\* C8: executeSwap returns a hash only when the wallet's write returned it; a
\* rejected or failed write gives SwapFailedError with the underlying message;
\* a missing wallet client or account gives NO_WALLET / NO_ACCOUNT unwrapped;
\* an empty route gives SwapFailedError; no failure returns a value.
C8_SwapOutcome ==
    (swap.op = "executeSwap")
    => LET r == swap.res
       IN /\ r.kind \in {"return", "throw"}
          /\ r.kind = "return"
               => /\ swap.wallet = "ok"
                  /\ Len(swap.writes) = 1
                  /\ r.value = TxHash(swap.writes[1])
          /\ swap.wallet = "noWallet" => r.kind = "throw" /\ r.code = "NO_WALLET"
          /\ swap.wallet = "noAccount" => r.kind = "throw" /\ r.code = "NO_ACCOUNT"
          /\ (swap.wallet \in {"rejected", "network"} /\ swap.writes # <<>>)
               => /\ r.kind = "throw"
                  /\ r.code = "SWAP_FAILED"
                  /\ r.msg = WalletErrorMessage(swap.wallet)
          /\ (swap.wallet = "nonError" /\ swap.writes # <<>>)
               => r.kind = "throw" /\ r.code = "SWAP_FAILED"
          /\ EmptyRouteCase
               => r.kind = "throw" /\ r.code = "SWAP_FAILED" /\ swap.writes = <<>>
          /\ (swap.wallet # "ok" \/ swap.writes = <<>>) => r.kind = "throw"

\* The user rejected the signature of a token-to-token swap.
C8_Witness ==
    /\ swap.op = "executeSwap"
    /\ swap.wallet = "rejected"
    /\ Len(swap.writes) = 1
    /\ swap.writes[1].functionName = "swapExactTokensForTokens"
    /\ swap.res.kind = "throw"
    /\ swap.res.code = "SWAP_FAILED"
    /\ swap.res.msg = "User rejected the request"
\* C10: once every quote request of a swap interface has been answered and no
\* request is pending for the form's amount, the displayed quote and toAmount
\* are those of the latest request, in whatever order the answers arrived.
C10_LatestQuoteWins ==
    ( /\ iface # "none"
      /\ quoting.issued > 0
      /\ quoting.inflight = {}
      /\ ~quoting.timer
      /\ quoting.fromAmount = quoting.latestAmount )
    => /\ quoting.toAmount = ToAmountShown(iface, quoting.latestResult)
       /\ quoting.quote = QuoteShown(iface, quoting.latestResult)
\* The moves of currentStep within an attempt, on failure, and on a new attempt.
StepMoves ==
    {<<"idle", "approving">>, <<"idle", "swapping">>, <<"approving", "swapping">>,
     <<"swapping", "complete">>, <<"approving", "idle">>, <<"swapping", "idle">>,
     <<"complete", "approving">>, <<"complete", "swapping">>}

SameNumber(x, y) == x.n * y.dn = y.n * x.dn
LessNumber(x, y) == x.n * y.dn < y.n * x.dn

\* The resolved, lower-cased address pair of the call's two tokens.
CallPair ==
    {toLowerCase(Resolved(dex, call.tokenIn)), toLowerCase(Resolved(dex, call.tokenOut))}

\* amount / (reserve / 10^decimals + amount) * 100, capped at 100, for an
\* amount in human units and a reserve in base units.
ClaimedImpact(amount, reserve, decimals) ==
    LET a == parseFloat(amount)
        raw == Number(a.n * Pow10(decimals) * 100, reserve * a.dn + a.n * Pow10(decimals))
    IN IF raw.n > 100 * raw.dn THEN Number(100, 1) ELSE raw

\* The reserve the pair contract reports for the call's input token: reserve0
\* when the pair's token0 is the resolved address of tokenIn, else reserve1.
ClaimedReserveIn ==
    IF PairToken0(CallPair) = toLowerCase(Resolved(dex, call.tokenIn))
    THEN PairReserves(dex, CallPair)[1]
    ELSE PairReserves(dex, CallPair)[2]

\* C11: calculatePriceImpact never throws and returns a number within
\* [0, 100]: 0 when the pair does not exist or a read fails, and otherwise
\* min(100, amountIn / (reserveIn + amountIn) * 100) with reserveIn the reserve
\* on the side of the pair's token0 or token1 that is the resolved tokenIn.
C11_PriceImpactFormula ==
    (call.op = "calculatePriceImpact")
    => /\ call.res.kind = "return"
       /\ call.res.value.t = "number"
       /\ call.res.value.dn > 0
       /\ 0 <= call.res.value.n
       /\ call.res.value.n <= 100 * call.res.value.dn
       /\ IF CallPair \notin pairs \/ call.env \in {"rpcDown", "pairFail", "noClient"}
          THEN call.res.value = Number(0, 1)
          ELSE SameNumber(call.res.value,
                          ClaimedImpact(call.amountIn, ClaimedReserveIn,
                                        call.tokenIn.decimals))

\* TKA is token1 of the TKA/USDT pair and its pool holds 6 TKA: an input of
\* 1.5 TKA has an impact of 1.5 / 7.5 * 100 = 20.
C11_Witness ==
    /\ call.op = "calculatePriceImpact"
    /\ call.env = "ok"
    /\ call.tokenIn = TokenA
    /\ call.tokenOut.symbol = "USDT"
    /\ call.amountIn = "1.5"
    /\ PairToken0(CallPair) = "0xusdt"
    /\ CallPair \in pairs
    /\ SameNumber(call.res.value, Number(20, 1))

\* C12: the priceImpact of a multi-hop quote ([tokenIn, bridge, tokenOut])
\* between two different tokens is the impact on the input-side reserve of the
\* first hop's pair (tokenIn, bridge), and so it is greater than 0.
C12_MultiHopImpactFromFirstHop ==
    ( /\ call.op = "getQuote"
      /\ call.res.kind = "return"
      /\ Cardinality(CallPair) = 2
      /\ Len(call.res.value.route) = 3 )
    => LET route == call.res.value.route
           firstHop == {toLowerCase(route[1]), toLowerCase(route[2])}
           reserveIn == IF PairToken0(firstHop) = toLowerCase(route[1])
                        THEN PairReserves(dex, firstHop)[1]
                        ELSE PairReserves(dex, firstHop)[2]
       IN /\ call.res.value.priceImpact.t = "number"
          /\ call.res.value.priceImpact.n > 0
          /\ SameNumber(call.res.value.priceImpact,
                        ClaimedImpact(call.amountIn, reserveIn, call.tokenIn.decimals))

\* C13: in every PairInfo getPairInfo returns, token0 and token1 are the
\* pair's tokens in the factory's order, so reserve0 is the pool's reserve of
\* PairInfo.token0 and reserve1 its reserve of PairInfo.token1.
C13_PairInfoFactoryOrder ==
    (call.op = "getPairInfo" /\ call.res.kind = "return")
    => LET info == call.res.value
           address0 == toLowerCase(Resolved(dex, info.token0))
           address1 == toLowerCase(Resolved(dex, info.token1))
       IN /\ address0 = PairToken0(CallPair)
          /\ address1 = PairToken1(CallPair)
          /\ info.reserve0 = ToString(ReserveOf(dex, address0))
          /\ info.reserve1 = ToString(ReserveOf(dex, address1))

\* The call is a quote that did not take the wrap/unwrap short-circuit.
RoutedQuote ==
    /\ call.op = "getQuote"
    /\ ~isWrapOperation(dex, call.tokenIn, call.tokenOut)
    /\ ~isUnwrapOperation(dex, call.tokenIn, call.tokenOut)

\* amountIn * 10^decimals for a human-readable amount.
BaseUnits(amount, decimals) ==
    (parseFloat(amount).n * Pow10(decimals)) \div parseFloat(amount).dn

\* C14: a returned quote's amountOut is the last amount of the router's
\* simulation of amountIn * 10^tokenIn.decimals along the quote's route,
\* divided by 10^tokenOut.decimals; the decimal counts are not interchanged.
C14_DecimalCorrectness ==
    (RoutedQuote /\ call.res.kind = "return")
    => LET route == call.res.value.route
           amounts == RouterAmounts(dex, pairs,
                                    BaseUnits(call.amountIn, call.tokenIn.decimals),
                                    route, 1)
           last == amounts[Len(amounts)]
           whole == last \div Pow10(call.tokenOut.decimals)
           frac == last % Pow10(call.tokenOut.decimals)
       IN /\ Len(amounts) = Len(route)
          /\ call.res.value.amountOut = formatUnits(last, call.tokenOut.decimals)
          /\ frac = 0 => call.res.value.amountOut = ToString(whole)

\* 1 TKC (1 decimal in the model, 10 base units) quoted against TKA (2
\* decimals) over their pool of 30 and 600 base units: 149 base units, "1.49".
C14_Witness ==
    /\ RoutedQuote
    /\ call.env = "ok"
    /\ call.tokenIn = TokenC
    /\ call.tokenOut = TokenA
    /\ call.amountIn = "1"
    /\ call.res.kind = "return"
    /\ call.res.value.route = <<"0xTkc", "0xTka">>
    /\ call.res.value.amountOut = "1.49"

\* C15: with a healthy read interface, for two tokens with a direct pair
\* getSwapRoute(A, B) returns [addrA, addrB], getSwapRoute(B, A) returns
\* [addrB, addrA], and getPairAddress(A, B) = getPairAddress(B, A), an address;
\* a native token stands for the wrapped-native address in both.
C15_RouteSymmetry ==
    ( /\ call.op = "getSwapRoute"
      /\ call.env = "ok"
      /\ DirectPair(dex, pairs, call.tokenIn, call.tokenOut) )
    => LET A == call.tokenIn
           B == call.tokenOut
       IN /\ call.res.value = <<Resolved(dex, A), Resolved(dex, B)>>
          /\ getSwapRoute(dex, pairs, B, A, call.env) = <<Resolved(dex, B), Resolved(dex, A)>>
          /\ getPairAddress(dex, pairs, A, B, call.env).kind = "return"
          /\ getPairAddress(dex, pairs, A, B, call.env)
                = getPairAddress(dex, pairs, B, A, call.env)

\* The route from TKA to the native asset over their direct pool, where TKA
\* has the higher address of the two.
C15_Witness ==
    /\ call.op = "getSwapRoute"
    /\ call.env = "ok"
    /\ call.tokenIn = TokenA
    /\ call.tokenOut.isNative
    /\ PairExists(pairs, "0xTka", getWethAddress(dex))
    /\ call.res.value = <<"0xTka", getWethAddress(dex)>>

\* The addresses of an adapter's bridge tokens.
BridgeAddresses(d) == {ClaimedBridges(d)[i] : i \in 1..Len(ClaimedBridges(d))}

\* C16: a route returned by getSwapRoute has length 0, 2 or 3; a non-empty
\* route starts at the resolved input address and ends at the resolved output
\* address, each two consecutive addresses have a pair on the factory, and the
\* middle of a 3-element route is a bridge token of the adapter's chain that
\* is neither endpoint.
C16_RouteShape ==
    (call.op = "getSwapRoute")
    => LET route == call.res.value
       IN /\ call.res.kind = "return"
          /\ Len(route) \in {0, 2, 3}
          /\ Len(route) > 0
               => /\ route[1] = Resolved(dex, call.tokenIn)
                  /\ route[Len(route)] = Resolved(dex, call.tokenOut)
                  /\ \A i \in 1..(Len(route) - 1) : PairExists(pairs, route[i], route[i + 1])
          /\ Len(route) = 3
               => /\ route[2] \in BridgeAddresses(dex)
                  /\ toLowerCase(route[2]) \notin {toLowerCase(route[1]), toLowerCase(route[3])}

\* A route from the native asset to TKC over the adapter's second stablecoin
\* or USDT, while the wrapped-native token has no pool with TKC.
C16_Witness ==
    /\ call.op = "getSwapRoute"
    /\ call.tokenIn.isNative
    /\ call.tokenOut = TokenC
    /\ ~PairExists(pairs, getWethAddress(dex), "0xTkc")
    /\ Len(call.res.value) = 3
    /\ call.res.value[1] = getWethAddress(dex)
    /\ call.res.value[2] \in BridgeAddresses(dex) \ {getWethAddress(dex)}

\* C17: an adapter gives the 1:1 quote, and hands deposit or withdraw to the
\* wallet, only for the native asset against the token at the chain's
\* wrapped-native address; for every other pair a returned quote is the
\* router's price along a route of existing pairs, and the write goes to the
\* router.
C17_WrapOnlyForWrappedNative ==
    /\ ( /\ call.op = "getQuote"
         /\ call.res.kind = "return"
         /\ ~IsNativeWrappedPair(dex, call.tokenIn, call.tokenOut) )
       => LET route == call.res.value.route
              amounts == RouterAmounts(dex, pairs,
                                       BaseUnits(call.amountIn, call.tokenIn.decimals),
                                       route, 1)
          IN /\ Len(route) \in {2, 3}
             /\ route[1] = Resolved(dex, call.tokenIn)
             /\ route[Len(route)] = Resolved(dex, call.tokenOut)
             /\ \A i \in 1..(Len(route) - 1) : PairExists(pairs, route[i], route[i + 1])
             /\ call.res.value.amountOut
                   = formatUnits(amounts[Len(amounts)], call.tokenOut.decimals)
    /\ ( /\ swap.op = "executeSwap"
         /\ swap.writes # <<>>
         /\ ~IsNativeWrappedPair(dex, swap.params.tokenIn, swap.params.tokenOut) )
       => \A i \in 1..Len(swap.writes) :
             /\ swap.writes[i].address = RouterAddress(dex)
             /\ swap.writes[i].functionName \notin {"deposit", "withdraw"}

\* The factory can be read during the call: pair lookups answer.
FactoryReadable == call.env \notin {"rpcDown", "noClient"}

\* C18: a quote for which a non-empty route exists fails, if it fails, with
\* QUOTE_FAILED and never with PairNotFound, and it does fail so when the
\* router's simulation rejects; a quote without a route fails with the
\* PairNotFound it raised itself, not wrapped into QUOTE_FAILED.
C18_QuoteFailedWhenSimulationFails ==
    RoutedQuote
    => IF FactoryReadable /\ ClaimedRoute(dex, pairs, call.tokenIn, call.tokenOut) # <<>>
       THEN /\ call.res.kind = "throw" => call.res.code = "QUOTE_FAILED"
            /\ call.env = "routerFail"
                 => call.res.kind = "throw" /\ call.res.code = "QUOTE_FAILED"
       ELSE call.res.kind = "throw" /\ call.res.code = "PAIR_NOT_FOUND"

\* TKA and TKC are connected over a bridge and the router's simulation
\* rejects: the quote fails with QUOTE_FAILED.
C18_Witness ==
    /\ RoutedQuote
    /\ call.env = "routerFail"
    /\ call.tokenIn = TokenA
    /\ call.tokenOut = TokenC
    /\ Len(ClaimedRoute(dex, pairs, call.tokenIn, call.tokenOut)) = 3
    /\ call.res.kind = "throw"
    /\ call.res.code = "QUOTE_FAILED"

\* The decimal string of twice an amount.
Doubled(amount) ==
    CASE amount = "1" -> "2"
      [] amount = "1.5" -> "3"

\* The impact the adapter computes for twice the call's amount.
DoubledImpact ==
    calculatePriceImpact(dex, pairs, call.tokenIn, call.tokenOut,
                         Doubled(call.amountIn), call.env)

\* C19: for an existing pair with a positive input-side reserve, read without
\* failure, the price impact of twice an amount x > 0 is strictly greater
\* than the price impact of x.
C19_ImpactMonotone ==
    ( /\ call.op = "calculatePriceImpact"
      /\ call.env = "ok"
      /\ call.amountIn \in {"1", "1.5"}
      /\ CallPair \in pairs
      /\ ClaimedReserveIn > 0 )
    => LessNumber(call.res.value, DoubledImpact)

\* 1.5 USDT into the USDT/TKC pool, whose USDT reserve is 4: the impact is
\* 1.5 / 5.5 * 100, and 3 / 7 * 100 for twice the amount.
C19_Witness ==
    /\ call.op = "calculatePriceImpact"
    /\ call.env = "ok"
    /\ call.tokenIn.symbol = "USDT"
    /\ call.tokenOut = TokenC
    /\ call.amountIn = "1.5"
    /\ CallPair \in pairs
    /\ SameNumber(call.res.value, Number(300, 11))
    /\ SameNumber(DoubledImpact, Number(300, 7))

C21_CancelIsNotFailure ==
    [][ ( /\ iface = "SwapInterface"
          /\ attempt.pc \in {"started", "approved"}
          /\ attempt'.pc = "idle"
          /\ attempt'.writes = attempt.writes )
        => attempt'.n \notin attempt'.failed
      ]_vars

\* C22: for two tokens at different addresses, both hooks normalize (A, B) and
\* (B, A) to the same ordered pair, made of the two tokens; when exactly one
\* of them has a stablecoin symbol it is the second element, and otherwise
\* the first element has the lower lower-cased address.
C22_NormalizationIndependentOfOrder ==
    (call.op = "normalizedTokens"
        /\ call.tokenIn # Undefined /\ call.tokenOut # Undefined
        /\ toLowerCase(call.tokenIn.address) # toLowerCase(call.tokenOut.address))
    => \A h \in 1..2 :
          LET a == call.tokenIn
              b == call.tokenOut
              n == call.res.value[h]
              flipped == IF h = 1 THEN normalizedTokens(b, a)
                         ELSE historicalNormalizedTokens(b, a)
          IN /\ n = flipped
             /\ n \in {<<a, b>>, <<b, a>>}
             /\ (n[1].symbol \in stablecoins) # (n[2].symbol \in stablecoins)
                    => n[2].symbol \in stablecoins
             /\ (n[1].symbol \in stablecoins) = (n[2].symbol \in stablecoins)
                    => AddressRank(toLowerCase(n[1].address))
                         < AddressRank(toLowerCase(n[2].address))

\* A stablecoin given first is moved to the quote position.
C22_Witness ==
    /\ call.op = "normalizedTokens"
    /\ call.tokenIn.symbol = "USDT"
    /\ call.tokenOut = TokenA
    /\ call.res.value[1] = <<TokenA, call.tokenIn>>
    /\ call.res.value[2] = <<TokenA, call.tokenIn>>

\* The router's swap functions SwapInterface calls.
RouterSwapFunctions ==
    {"swapExactKLCForTokens", "swapExactTokensForKLC", "swapExactTokensForTokens"}

\* C23: in SwapInterface, a router swap whose input token is not native is
\* handed to the wallet only when the approve of the token for the router was
\* submitted as the previous write of the same attempt and its receipt has
\* been received; an approve is handed to the wallet only for a non-native
\* input token and never for a wrap.
C23_ApproveBeforeSwap ==
    [][ (iface = "SwapInterface" /\ attempt'.writes # attempt.writes)
        => LET new == attempt'.writes[Len(attempt'.writes)]
           IN /\ (new.functionName \in RouterSwapFunctions
                    /\ attempt.fromToken.isNative # TRUE)
                  => /\ attempt.pc = "approved"
                     /\ attempt.writes # <<>>
                     /\ attempt.writes[Len(attempt.writes)] = UiWrite(attempt.n, "approve")
                     /\ [attempt |-> attempt.n, token |-> attempt.fromToken.address,
                         spender |-> RouterAddress("KalySwap")] \in attempt.approvals
              /\ new.functionName = "approve"
                  => /\ attempt.fromToken.isNative # TRUE
                     /\ ~SwapInterfaceIsWrap(attempt.fromToken, attempt.toToken)
              /\ (attempt'.pc = "approved" /\ attempt.pc # "approved")
                  => attempt.pc = "approveSent"
      ]_vars

\* A token-to-token swap was submitted after its approve and the approve's
\* receipt.
C23_Witness ==
    /\ iface = "SwapInterface"
    /\ attempt.pc = "swapSent"
    /\ attempt.fromToken = TokenA
    /\ attempt.toToken = TokenC
    /\ attempt.writes = <<UiWrite(1, "approve"), UiWrite(1, "swapExactTokensForTokens")>>
    /\ attempt.approvals = {[attempt |-> 1, token |-> TokenA.address,
                             spender |-> RouterAddress("KalySwap")]}

\* C24: a fetch of useHistoricalPriceData that has been superseded (a later
\* fetch has started since, by a change of dependencies or by refetch) never
\* writes priceData, error or isLoading: every step in which a settling fetch
\* changes one of them is a step of the latest fetch.
C24_SupersededFetchNeverWrites ==
    [][ ( /\ chart'.issued = chart.issued
          /\ \/ chart'.priceData # chart.priceData
             \/ chart'.error # chart.error
             \/ chart'.isLoading # chart.isLoading )
        => \A f \in chart.inflight \ chart'.inflight : f.id = chart.issued
      ]_vars

\* C25: in MultichainSwapInterface, whenever the swap action is enabled the
\* stored quote is the answer to a request for the form's current fromAmount
\* (the tokens of the form are fixed here), so the route and the amountOut
\* handleSwap reads belong to the amount it submits.
C25_EnabledSwapHasCurrentQuote ==
    ( /\ iface = "MultichainSwapInterface"
      /\ canSwapForm(quoting)
      /\ canSwap(attempt) )
    => quoting.quotedAmount = quoting.fromAmount

\* C26: a call of executeSwap hands at most one write to the wallet; when it
\* returns, its value is the hash of that one write (no receipt is read in
\* between); and when it fails before submission (no wallet client, no
\* account, an empty route) no write was handed to the wallet.
C26_AtMostOneWrite ==
    (swap.op = "executeSwap")
    => /\ Len(swap.writes) <= 1
       /\ swap.res.kind = "return"
            => /\ Len(swap.writes) = 1
               /\ swap.res.value = TxHash(swap.writes[1])
       /\ (swap.wallet \in {"noWallet", "noAccount"} \/ EmptyRouteCase)
            => /\ swap.writes = <<>>
               /\ swap.res.kind = "throw"
       /\ swap.writes = <<>> => swap.res.kind = "throw"

\* A native-input swap on PancakeSwap returned the hash of its single write.
C26_Witness ==
    /\ swap.op = "executeSwap"
    /\ dex = "PancakeSwap"
    /\ swap.res.kind = "return"
    /\ Len(swap.writes) = 1
    /\ swap.writes[1].functionName = "swapExactETHForTokens"
    /\ swap.res.value = TxHash(swap.writes[1])

\* The token list schema: an object with a string name, a version of three
\* numbers and an array of tokens, each an object with non-empty string
\* address, symbol and name, a string logoURI, decimals >= 0 and chainId > 0.
SchemaValid(l) ==
    /\ l.isObject /\ l.tokensIsArray
    /\ l.name.t = "string"
    /\ \A f \in {"major", "minor", "patch"} : l.version[f].t = "number"
    /\ \A i \in 1..Len(l.tokens) :
          LET k == l.tokens[i]
          IN /\ k.isObject
             /\ \A f \in {"address", "symbol", "name"} : k[f].t = "string" /\ k[f].s # ""
             /\ k.logoURI.t = "string"
             /\ k.decimals.t = "number" /\ k.decimals.n >= 0
             /\ k.chainId.t = "number" /\ k.chainId.n > 0

\* C27: the token list cache holds only lists that pass validateTokenList;
\* fetchTokenList sends a request only when the URL has no entry younger than
\* CACHE_TTL and returns without a request only the data of such an entry; a
\* settled request either caches and returns a valid list with the current
\* time, or returns null and leaves the cache as it is (an expired entry
\* stays, unserved); clearCache(url) empties that URL's slot only and
\* clearCache() empties every slot.
C27_CacheHoldsValidatedLists ==
    [][ LET s == tokenLists
            t == tokenLists'
        IN /\ \A u \in ListUrls :
                 t.cache[u].present => SchemaValid(t.cache[u].data)
           /\ t.issued # s.issued
                => \E req \in t.inflight \ s.inflight :
                      /\ ~CacheHit(s, req.url)
                      /\ t.cache = s.cache
           /\ (t.issued = s.issued /\ t.inflight = s.inflight /\ t.last # s.last)
                => /\ CacheHit(s, t.last.url)
                   /\ t.last.res = Return(s.cache[t.last.url].data)
                   /\ t.cache = s.cache
           /\ t.inflight # s.inflight /\ t.issued = s.issued
                => \E req \in s.inflight \ t.inflight :
                      /\ t.last.url = req.url
                      /\ \/ t.last.res = Null /\ t.cache = s.cache
                         \/ /\ t.last.res.kind = "return"
                            /\ SchemaValid(t.last.res.value)
                            /\ t.cache = [s.cache EXCEPT ![req.url] =
                                             CacheEntry(t.last.res.value, s.now)]
           /\ (t.cache # s.cache /\ t.inflight = s.inflight)
                => \/ \E u \in ListUrls : t.cache = [s.cache EXCEPT ![u] = NoEntry]
                   \/ t.cache = [u \in ListUrls |-> NoEntry]
      ]_vars

\* An entry expired, a new fetch for its URL failed, and the expired entry is
\* still in the cache while the other URL's entry was cleared.
C27_Witness ==
    LET a == "/api/token-lists/kalyswap"
        b == "https://tokens.example/list.json"
    IN /\ tokenLists.cache[a].present
       /\ tokenLists.now - tokenLists.cache[a].timestamp >= CACHE_TTL
       /\ tokenLists.last = [url |-> a, res |-> Null]
       /\ tokenLists.issued = 3
       /\ tokenLists.inflight = {}
       /\ ~tokenLists.cache[b].present

\* The requests of one call that settled with an error.
RetryFailures == {i \in 1..Len(retry.answers) : retry.answers[i].kind = "throw"}

\* Claim C28: requestWithRetry makes at most retries + 1 attempts; no request
\* follows a successful one, whose result is returned; the i-th failed attempt
\* that is followed by another is followed by a wait of 2^(i-1) seconds; when
\* every attempt fails the error of the last attempt is thrown; and a call
\* whose requests all settle ends, returning or throwing.
C28_RetryBounded ==
    /\ [](/\ retry.sent <= (IF retry.retries < 0 THEN 0 ELSE retry.retries + 1)
          /\ \A i \in 1..(Len(retry.answers) - 1) : i \in RetryFailures
          /\ \A i \in 1..Len(retry.waits) : retry.waits[i] = Pow2(i - 1) * 1000
          /\ (retry.sent >= 1 /\ retry.pc # "waiting") =>
                Len(retry.waits) = retry.sent - 1
          /\ retry.pc = "waiting" => Len(retry.waits) = Len(retry.answers)
          /\ retry.pc = "returned" =>
                /\ Len(retry.answers) = retry.sent
                /\ retry.sent \notin RetryFailures
                /\ retry.res = retry.answers[retry.sent]
          /\ (retry.pc = "threw" /\ retry.sent >= 1) =>
                /\ retry.sent = retry.retries + 1
                /\ RetryFailures = 1..retry.sent
                /\ retry.res = retry.answers[retry.sent])
    /\ (retry.pc # "idle") ~> (retry.pc \in {"returned", "threw"})

\* Three retries, four failed requests, the fourth error thrown.
C28_Witness ==
    /\ retry.pc = "threw"
    /\ retry.retries = 3
    /\ retry.sent = 4
    /\ retry.waits = <<1000, 2000, 4000>>
    /\ retry.res = Throw("GRAPHQL")
    /\ retry.answers[1] = Throw("NETWORK")

\* Claim C29: in the internal wallet session state isConnected is true only if
\* activeWallet is not null; and right after disconnect isConnected is false,
\* activeWallet is null, availableWallets is empty and getAccounts answers the
\* empty list.
C29_ConnectedHasActiveWallet ==
    /\ internalWallet.state.isConnected =>
          internalWallet.state.activeWallet # NullWallet
    /\ internalWallet.last.op = "disconnect" =>
          /\ ~internalWallet.state.isConnected
          /\ internalWallet.state.activeWallet = NullWallet
          /\ internalWallet.state.availableWallets = <<>>
          /\ getAccounts(internalWallet).last.res = Return(<<>>)

\* disconnect ran while a connect had replaced availableWallets and its
\* selection modal was open.
C29_Witness ==
    /\ internalWallet.last.op = "disconnect"
    /\ \E c \in internalWallet.connects : c.pc = "selecting"
    /\ internalWallet.storage = <<EmptyWalletState>>

\* Claim C30: in the internal wallet session state an activeWallet that is not
\* null is one of the entries of availableWallets.
C30_ActiveWalletIsAvailable ==
    internalWallet.state.activeWallet # NullWallet =>
        \E i \in 1..Len(internalWallet.state.availableWallets) :
            internalWallet.state.availableWallets[i] = internalWallet.state.activeWallet
====
